---------------------------- MODULE Spec2Model ----------------------------
(***************************************************************************)
(* Model of the Python tooling of hdl-modules: the command line scripts    *)
(* under tools/ and the per-module test/build setup under modules/.        *)
(*                                                                         *)
(* Every script is a sequential program of its own.  Each one is modelled  *)
(* as a state machine over its own variables and has a specification of    *)
(* its own (SpecGenerics, SpecBuild, ...), in which the variables of the   *)
(* other scripts stay at their idle values.                                *)
(*                                                                         *)
(* A Python str is a sequence of one-character strings, so that split(),   *)
(* count(), lower(), isdigit() and int() are computed character by         *)
(* character.                                                              *)
(***************************************************************************)
EXTENDS Integers, Sequences, FiniteSets, TLC

VARIABLES
    \* tools/synthesize.py, parse_generics
    command_line_argument,  \* the arguments the for loop has taken so far
    pg_pc,                  \* "loop", "returned" or "ValueError"
    result_raw,             \* dict name -> list of values, in insertion order
    generic_setups,         \* the returned list of dictionaries
    \* tools/build.py, setup_and_run
    args,                   \* the argparse namespace
    sr_pc,                  \* "start", "created", "built" or "returned"
    sr_locals,              \* the local variables assigned so far
    sr_calls,               \* the calls made on projects and modules, in order
    sr_return,              \* <<>>, or <<code>> once returned
    \* tools/tag_release.py, verify_new_version_number
    repo_is_dirty,          \* repo.is_dirty()
    unreleased_notes,       \* the text of release_notes/unreleased.rst
    new_version,            \* the release version asked for
    current_version,        \* hdl_modules.__version__
    repo_tags,              \* repo.tags, as strings
    vn_pc,                  \* "start", "tags", "returned", "exited" or "raised"
    tag_index,              \* the position of the loop of line 76 in repo.tags
    vn_return,              \* <<>>, or <<tag>> once returned
    vn_message,             \* the message the program ends with, or ""
    \* modules/sine_generator, get_coherent_sampling_count
    sample_rate_hz,
    sine_frequency_hz,
    cs_pc,                  \* "start", "returned" or "AssertionError"
    cs_return,              \* <<>>, or <<count>> once returned
    \* modules/resync, setup_resync_twophase_handshake_tests
    rs_tests,               \* the names of tb.get_tests(), in order
    rs_pc,                  \* "loop", "returned" or "RuntimeError"
    mode_index,             \* the position of the loop of line 103
    test_index,             \* the position of the loop of line 112
    generics,               \* the dict of line 110
    rs_configs,             \* the calls of add_vunit_config, in order
    rs_message,             \* the message of the RuntimeError, or <<>>
    \* tools/build_docs.py, generate_documentation and get_readme_rst
    bd_files,               \* the file system: path -> text
    bd_modules,             \* get_modules(), in the order it returns them
    bd_pc,                  \* "start", "modules", "returned" or "AssertionError"
    bd_readme_rst,          \* <<>>, or <<text>> once get_readme_rst returned
    index_rst,              \* the text of line 61, as it grows
    bd_module_index,        \* the position of the loop of line 94
    bd_created,             \* the paths written, in order
    \* modules/hard_fifo, get_simulation_files and setup_vunit
    include_unisim,         \* the argument of both methods
    files_avoid,            \* the caller's argument: <<>> for None, or <<set>>
    hf_kwargs,              \* the caller's further keyword arguments
    super_files_avoid,      \* files_avoid as line 31 passes it on
    simulation_files,       \* <<>>, or <<files>> once get_simulation_files returned
    hf_tests,               \* the names of tb.get_tests(), in order
    hf_pc,                  \* "start", "files", "loop", "returned" or "KeyError"
    hf_test_index,          \* the position of the loop of line 42
    hf_configs,             \* the calls of add_vunit_config, in order
    \* tools/simulate.py, main
    sm_argv,                \* the command line as arguments() parsed it
    sm_args,                \* args, which main changes
    has_commercial_simulator, \* vunit_proj.get_simulator_name() != "ghdl"
    testbenches_to_run,     \* what GitSimulationSubset.find_subset() finds
    sm_pc,                  \* "start", "filters", "setup", "project",
                            \* "configured", "simulated", "returned" or "exited"
    git_test_filters,       \* <<>>, or <<filters>> once line 41 has run
    sm_project,             \* <<>>, or <<project>> once line 53 has run
    sm_calls,               \* the calls made on VUnit, Vivado and git, in order
    sm_printed,             \* what main has printed, in order
    sm_exit,                \* <<>>, or <<message>> of sys.exit
    \* modules/lfsr, post_check_lfsr_pkg
    lf_length,              \* len(matches)
    lf_common,              \* the match at every position but one
    lf_special,             \* the match at position lf_special_index
    lf_special_index,
    lf_pc,                  \* "start", "loop", "returned", "AssertionError"
                            \* or "ValueError"
    lf_index,               \* the position of the loop of line 81
    lf_taps,                \* taps of the round of the loop that ran last
    lf_line,                \* the line that raised, or 0
    lf_return,              \* <<>>, or <<TRUE>> once returned
    \* tools/tag_release.py, main and move_release_notes
    tr_pc,                  \* the call that main makes next: "verify", "update",
                            \* "move", "commit_and_tag", "bump", "commit",
                            \* or "done" or "RuntimeError"
    tr_steps,               \* the calls that main has completed, in order
    version_file,           \* the version in hdl_modules/__init__.py
    version_notes,          \* <<>>, or <<text>> of release_notes/<version>.rst
    tr_index,               \* the git index: what is added and not committed
    tr_head,                \* the tree of HEAD
    tr_commits,             \* the commits that main has made, in order
    tr_tag_commit,          \* 0, or the position in tr_commits of the tagged one
    \* modules/common, handshake_pipeline tests and build projects
    hp_tests,               \* the names of tb.get_tests(), in order
    hp_pc,                  \* _setup_handshake_pipeline_tests: "loop" or "returned"
    hp_test_index,          \* the position of the loop of line 124
    hp_product_index,       \* the position of the loop of line 125
    hp_configs,             \* the calls of add_vunit_config, in order
    hp_build_pc,            \* _get_handshake_pipeline_build_projects: "loop" or "returned"
    hp_idx,                 \* idx of line 334
    hp_projects,            \* the list projects
    \* modules/fifo, generate_common_fifo_test_generics
    test_name,              \* the argument test_name
    original_generics,      \* the argument: 0 for None, or the dict object 1
    fg_original,            \* the contents of original_generics at the call
    fg_heap,                \* the dict objects: object number -> contents
    fg_generics,            \* the local generics: 0, or the object it names
    fg_pc,                  \* "created", "suspended", "exhausted" or "KeyError"
    fg_position,            \* the number of configurations yielded
    fg_yielded              \* what the caller got: the object and what it held

pg_vars == <<command_line_argument, pg_pc, result_raw, generic_setups>>
sr_vars == <<args, sr_pc, sr_locals, sr_calls, sr_return>>
vn_vars == <<repo_is_dirty, unreleased_notes, new_version, current_version,
             repo_tags, vn_pc, tag_index, vn_return, vn_message>>
cs_vars == <<sample_rate_hz, sine_frequency_hz, cs_pc, cs_return>>
rs_vars == <<rs_tests, rs_pc, mode_index, test_index, generics, rs_configs, rs_message>>
bd_vars == <<bd_files, bd_modules, bd_pc, bd_readme_rst, index_rst, bd_module_index,
             bd_created>>
hf_vars == <<include_unisim, files_avoid, hf_kwargs, super_files_avoid, simulation_files,
             hf_tests, hf_pc, hf_test_index, hf_configs>>
sm_vars == <<sm_argv, sm_args, has_commercial_simulator, testbenches_to_run, sm_pc,
             git_test_filters, sm_project, sm_calls, sm_printed, sm_exit>>
lf_vars == <<lf_length, lf_common, lf_special, lf_special_index, lf_pc, lf_index,
             lf_taps, lf_line, lf_return>>
tr_vars == <<tr_pc, tr_steps, version_file, version_notes, tr_index, tr_head,
             tr_commits, tr_tag_commit>>
hp_vars == <<hp_tests, hp_pc, hp_test_index, hp_product_index, hp_configs,
             hp_build_pc, hp_idx, hp_projects>>
fg_vars == <<test_name, original_generics, fg_original, fg_heap, fg_generics, fg_pc,
             fg_position, fg_yielded>>

vars == <<pg_vars, sr_vars, vn_vars, cs_vars, rs_vars, bd_vars, hf_vars, sm_vars, lf_vars, tr_vars, hp_vars, fg_vars>>

\* What each script leaves alone: the variables of the other scripts.
pg_others == <<sr_vars, vn_vars, cs_vars, rs_vars, bd_vars, hf_vars, sm_vars, lf_vars, tr_vars, hp_vars, fg_vars>>
sr_others == <<pg_vars, vn_vars, cs_vars, rs_vars, bd_vars, hf_vars, sm_vars, lf_vars, tr_vars, hp_vars, fg_vars>>
vn_others == <<pg_vars, sr_vars, cs_vars, rs_vars, bd_vars, hf_vars, sm_vars, lf_vars, tr_vars, hp_vars, fg_vars>>
cs_others == <<pg_vars, sr_vars, vn_vars, rs_vars, bd_vars, hf_vars, sm_vars, lf_vars, tr_vars, hp_vars, fg_vars>>
rs_others == <<pg_vars, sr_vars, vn_vars, cs_vars, bd_vars, hf_vars, sm_vars, lf_vars, tr_vars, hp_vars, fg_vars>>
bd_others == <<pg_vars, sr_vars, vn_vars, cs_vars, rs_vars, hf_vars, sm_vars, lf_vars, tr_vars, hp_vars, fg_vars>>
hf_others == <<pg_vars, sr_vars, vn_vars, cs_vars, rs_vars, bd_vars, sm_vars, lf_vars, tr_vars, hp_vars, fg_vars>>
sm_others == <<pg_vars, sr_vars, vn_vars, cs_vars, rs_vars, bd_vars, hf_vars, lf_vars, tr_vars, hp_vars, fg_vars>>
lf_others == <<pg_vars, sr_vars, vn_vars, cs_vars, rs_vars, bd_vars, hf_vars, sm_vars, tr_vars, hp_vars, fg_vars>>
tr_others == <<pg_vars, sr_vars, vn_vars, cs_vars, rs_vars, bd_vars, hf_vars, sm_vars, lf_vars, hp_vars, fg_vars>>
hp_others == <<pg_vars, sr_vars, vn_vars, cs_vars, rs_vars, bd_vars, hf_vars, sm_vars, lf_vars, tr_vars, fg_vars>>
fg_others == <<pg_vars, sr_vars, vn_vars, cs_vars, rs_vars, bd_vars, hf_vars, sm_vars, lf_vars, tr_vars, hp_vars>>

\* What main of tag_release leaves alone besides the variables of
\* verify_new_version_number, which it calls.
tr_rest == <<pg_vars, sr_vars, cs_vars, rs_vars, bd_vars, hf_vars, sm_vars, lf_vars, hp_vars, fg_vars>>

\* A function that has not returned anything.
NoResult == <<>>

\* A dict or a namespace without entries.
Empty == <<>>

---------------------------------------------------------------------------
(* The scripts at rest: the values of a script's variables in the          *)
(* specifications of the other scripts.                                    *)

PGIdle ==
    /\ command_line_argument = <<>>
    /\ pg_pc = "idle"
    /\ result_raw = Empty
    /\ generic_setups = NoResult

SRIdle ==
    /\ args = Empty
    /\ sr_pc = "idle"
    /\ sr_locals = Empty
    /\ sr_calls = <<>>
    /\ sr_return = NoResult

VNIdle ==
    /\ repo_is_dirty = FALSE
    /\ unreleased_notes = ""
    /\ new_version = <<>>
    /\ current_version = <<>>
    /\ repo_tags = <<>>
    /\ vn_pc = "idle"
    /\ tag_index = 0
    /\ vn_return = NoResult
    /\ vn_message = ""

CSIdle ==
    /\ sample_rate_hz = 0
    /\ sine_frequency_hz = 0
    /\ cs_pc = "idle"
    /\ cs_return = NoResult

RSIdle ==
    /\ rs_tests = <<>>
    /\ rs_pc = "idle"
    /\ mode_index = 0
    /\ test_index = 0
    /\ generics = Empty
    /\ rs_configs = <<>>
    /\ rs_message = <<>>

BDIdle ==
    /\ bd_files = Empty
    /\ bd_modules = <<>>
    /\ bd_pc = "idle"
    /\ bd_readme_rst = NoResult
    /\ index_rst = <<>>
    /\ bd_module_index = 0
    /\ bd_created = <<>>

HFIdle ==
    /\ include_unisim = FALSE
    /\ files_avoid = <<>>
    /\ hf_kwargs = Empty
    /\ super_files_avoid = <<>>
    /\ simulation_files = NoResult
    /\ hf_tests = <<>>
    /\ hf_pc = "idle"
    /\ hf_test_index = 0
    /\ hf_configs = <<>>

SMIdle ==
    /\ sm_argv = Empty
    /\ sm_args = Empty
    /\ has_commercial_simulator = FALSE
    /\ testbenches_to_run = <<>>
    /\ sm_pc = "idle"
    /\ git_test_filters = NoResult
    /\ sm_project = NoResult
    /\ sm_calls = <<>>
    /\ sm_printed = <<>>
    /\ sm_exit = NoResult

LFIdle ==
    /\ lf_length = 0
    /\ lf_common = <<>>
    /\ lf_special = <<>>
    /\ lf_special_index = 0
    /\ lf_pc = "idle"
    /\ lf_index = 0
    /\ lf_taps = <<>>
    /\ lf_line = 0
    /\ lf_return = NoResult

TRIdle ==
    /\ tr_pc = "idle"
    /\ tr_steps = <<>>
    /\ version_file = <<>>
    /\ version_notes = <<>>
    /\ tr_index = Empty
    /\ tr_head = Empty
    /\ tr_commits = <<>>
    /\ tr_tag_commit = 0

HPIdle ==
    /\ hp_tests = <<>>
    /\ hp_pc = "idle"
    /\ hp_test_index = 0
    /\ hp_product_index = 0
    /\ hp_configs = <<>>
    /\ hp_build_pc = "idle"
    /\ hp_idx = 0
    /\ hp_projects = <<>>

FGIdle ==
    /\ test_name = <<>>
    /\ original_generics = 0
    /\ fg_original = Empty
    /\ fg_heap = <<>>
    /\ fg_generics = 0
    /\ fg_pc = "idle"
    /\ fg_position = 0
    /\ fg_yielded = <<>>

---------------------------------------------------------------------------
(* Helpers on sequences.                                                   *)

Range(s) == {s[i] : i \in DOMAIN s}

RECURSIVE SeqsUpTo(_, _)
\* All sequences over S of length 0..n.
SeqsUpTo(S, n) ==
    IF n = 0 THEN {<<>>}
    ELSE LET shorter == SeqsUpTo(S, n - 1)
         IN  shorter \cup {Append(s, x) : s \in shorter, x \in S}

RECURSIVE Concat(_)
\* The concatenation of a sequence of strings.
Concat(parts) ==
    IF parts = <<>> THEN <<>> ELSE Head(parts) \o Concat(Tail(parts))

RECURSIVE Join(_, _)
\* sep.join(parts)
Join(parts, sep) ==
    IF parts = <<>> THEN <<>>
    ELSE IF Len(parts) = 1 THEN parts[1]
    ELSE parts[1] \o sep \o Join(Tail(parts), sep)

---------------------------------------------------------------------------
(* Python str methods used by parse_generics.                              *)

\* str.count(ch) for a single character.
StrCount(s, ch) == Cardinality({i \in DOMAIN s : s[i] = ch})

RECURSIVE StrSplit(_, _)
\* str.split(ch) for a single character: always at least one part.
StrSplit(s, ch) ==
    IF \A i \in DOMAIN s : s[i] # ch THEN <<s>>
    ELSE LET first == CHOOSE i \in DOMAIN s :
                          s[i] = ch /\ \A j \in 1..(i - 1) : s[j] # ch
         IN  <<SubSeq(s, 1, first - 1)>> \o StrSplit(SubSeq(s, first + 1, Len(s)), ch)

\* The lower case of one character (the alphabet's upper case letters).
LowerChar(c) ==
    CASE c = "T" -> "t"
      [] c = "R" -> "r"
      [] c = "U" -> "u"
      [] c = "E" -> "e"
      [] c = "F" -> "f"
      [] c = "A" -> "a"
      [] c = "L" -> "l"
      [] c = "S" -> "s"
      [] OTHER -> c

\* str.lower()
StrLower(s) == [i \in DOMAIN s |-> LowerChar(s[i])]

Digits == {"0", "1", "2", "3", "4", "5", "6", "7", "8", "9"}

\* str.isdigit(): non-empty and every character a digit.
StrIsDigit(s) == s # <<>> /\ \A i \in DOMAIN s : s[i] \in Digits

DigitValue(c) ==
    CASE c = "0" -> 0 [] c = "1" -> 1 [] c = "2" -> 2 [] c = "3" -> 3
      [] c = "4" -> 4 [] c = "5" -> 5 [] c = "6" -> 6 [] c = "7" -> 7
      [] c = "8" -> 8 [] c = "9" -> 9

RECURSIVE IntOfDigits(_)
\* int(s) for a string of digits.
IntOfDigits(s) ==
    IF s = <<>> THEN 0
    ELSE 10 * IntOfDigits(SubSeq(s, 1, Len(s) - 1)) + DigitValue(s[Len(s)])

StrTrue == <<"t", "r", "u", "e">>
StrFalse == <<"f", "a", "l", "s", "e">>

---------------------------------------------------------------------------
(* tools/synthesize.py: parse_generics.                                    *)
(*                                                                         *)
(* A parsed value is [type, val]: a bool (val 1 for True, 0 for False) or  *)
(* an int.                                                                 *)

BoolValue(b) == [type |-> "bool", val |-> IF b THEN 1 ELSE 0]
IntValue(n) == [type |-> "int", val |-> n]

\* The test of line 137.
HasOneEquals(argument) == StrCount(argument, "=") = 1

\* Mutant of NameOrValuesEmpty: the name is not tested.
ValuesEmptyOnly(name, values) == values = <<>>

\* The test of line 143, on the two parts of the split of line 142.
NameOrValuesEmpty(name, values) == name = <<>> \/ values = <<>>

\* Lines 151-158: can the value be cast?
ValueCastable(value) ==
    \/ StrLower(value) \in {StrTrue, StrFalse}
    \/ StrIsDigit(value)

\* Lines 151-156: the value, cast.
ValueCasted(value) ==
    IF StrLower(value) \in {StrTrue, StrFalse}
    THEN BoolValue(StrLower(value) = StrTrue)
    ELSE IntValue(IntOfDigits(value))

\* Lines 137-158: does the argument raise ValueError?
ArgumentRaises(argument) ==
    IF ~HasOneEquals(argument) THEN TRUE
    ELSE LET parts == StrSplit(argument, "=")
         IN  IF NameOrValuesEmpty(parts[1], parts[2]) THEN TRUE
             ELSE \E value \in Range(StrSplit(parts[2], ",")) : ~ValueCastable(value)

\* Lines 142 and 150-160: the name and the cast values of an argument.
ArgumentName(argument) == StrSplit(argument, "=")[1]

RECURSIVE CastAll(_)
\* The loop of lines 150-160 over values that can all be cast.
CastAll(values) ==
    IF values = <<>> THEN <<>>
    ELSE <<ValueCasted(Head(values))>> \o CastAll(Tail(values))

ArgumentValues(argument) ==
    CastAll(StrSplit(StrSplit(argument, "=")[2], ","))

\* Lines 148 and 160: result_raw[name] = [] and the appends.  Assigning to an
\* existing key of a dict replaces its value and keeps its position.
DictAssign(dict, name, values) ==
    IF \E i \in DOMAIN dict : dict[i].name = name
    THEN [i \in DOMAIN dict |->
             IF dict[i].name = name THEN [name |-> name, values |-> values] ELSE dict[i]]
    ELSE Append(dict, [name |-> name, values |-> values])

\* Mutant of Product: the lists are walked in step, as zip does.
ProductInStep(lists) ==
    IF lists = <<>> THEN << <<>> >>
    ELSE [k \in 1..Len(lists[1]) |->
             [j \in DOMAIN lists |-> lists[j][IF k <= Len(lists[j]) THEN k ELSE 1]]]

RECURSIVE Product(_)
\* itertools.product(*lists): the last list varies fastest.
Product(lists) ==
    IF lists = <<>> THEN << <<>> >>
    ELSE LET rest == Product(Tail(lists))
             first == Head(lists)
         IN  [k \in 1..(Len(first) * Len(rest)) |->
                 <<first[((k - 1) \div Len(rest)) + 1]>> \o rest[((k - 1) % Len(rest)) + 1]]

\* dict(zip(keys, combination))
DictZip(keys, combination) ==
    [n \in Range(keys) |-> combination[CHOOSE i \in DOMAIN keys : keys[i] = n]]

\* Lines 164-167.
Combinations(dict) ==
    LET keys == [i \in DOMAIN dict |-> dict[i].name]
        lists == [i \in DOMAIN dict |-> dict[i].values]
        product == Product(lists)
    IN  [k \in DOMAIN product |-> DictZip(keys, product[k])]

\* The names and the values that the arguments of SpecGenerics are made of.
NamePool == {<<"a">>, <<"b">>, <<"w", "r">>}
ValuePool == {<<"1", "0">>, <<"T", "r", "U", "e">>}

\* Bound of SpecGenerics: the values on the command line, over all arguments.
MaxValues == 4

\* 'name=value1,value2' for every name and every list of at most MaxValues
\* values ('name=' for the empty list).
ArgPool ==
    {name \o <<"=">> \o Join(values, <<",">>) :
        name \in NamePool, values \in SeqsUpTo(ValuePool, MaxValues)}

\* The number of values of the arguments taken so far; an argument without a
\* value part counts as one.
RECURSIVE ValueCount(_)
ValueCount(arguments) ==
    IF arguments = <<>> THEN 0
    ELSE StrCount(Head(arguments), ",") + 1 + ValueCount(Tail(arguments))

\* The pieces that the single argument of SpecGenericArgument is made of, and
\* the bound on their number.
PiecePool ==
    {<<"a">>, <<"=">>, <<",">>, <<"1", "0">>, <<"T", "r", "U", "e">>,
     <<"f", "a", "l", "s", "e">>}
MaxPieces == 5

PieceArgPool == {Concat(pieces) : pieces \in SeqsUpTo(PiecePool, MaxPieces)}

PGInit ==
    /\ command_line_argument = <<>>
    /\ pg_pc = "loop"
    /\ result_raw = <<>>
    /\ generic_setups = NoResult

\* result_raw when the argument raises: line 148 and the appends of line 160
\* have run for the values before the first one that can not be cast.
ResultRawAtRaise(dict, argument) ==
    IF ~HasOneEquals(argument) THEN dict
    ELSE LET parts == StrSplit(argument, "=")
             values == StrSplit(parts[2], ",")
             bad == CHOOSE i \in DOMAIN values :
                        /\ ~ValueCastable(values[i])
                        /\ \A j \in 1..(i - 1) : ValueCastable(values[j])
         IN  IF NameOrValuesEmpty(parts[1], parts[2]) THEN dict
             ELSE DictAssign(dict, parts[1],
                             CastAll(SubSeq(values, 1, bad - 1)))

\* The command line holds at most max_arguments arguments and max_values
\* values.
Fits(arguments, max_arguments, max_values) ==
    /\ Len(arguments) <= max_arguments
    /\ ValueCount(arguments) <= max_values

\* One iteration of the loop of line 136 that raises nothing, on an argument
\* of the pool.
ParseArgument(pool, max_arguments, max_values) ==
    /\ pg_pc = "loop"
    /\ Fits(command_line_argument, max_arguments - 1, max_values - 1)
    /\ \E argument \in pool :
        /\ Fits(Append(command_line_argument, argument), max_arguments, max_values)
        /\ ~ArgumentRaises(argument)
        /\ command_line_argument' = Append(command_line_argument, argument)
        /\ result_raw' = DictAssign(result_raw, ArgumentName(argument),
                                    ArgumentValues(argument))
    /\ UNCHANGED <<pg_pc, generic_setups, pg_others>>

\* One iteration of the loop of line 136 that raises ValueError (lines 138,
\* 144 and 158).
RaiseValueError(pool, max_arguments, max_values) ==
    /\ pg_pc = "loop"
    /\ Fits(command_line_argument, max_arguments - 1, max_values - 1)
    /\ \E argument \in pool :
        /\ Fits(Append(command_line_argument, argument), max_arguments, max_values)
        /\ ArgumentRaises(argument)
        /\ command_line_argument' = Append(command_line_argument, argument)
        /\ result_raw' = ResultRawAtRaise(result_raw, argument)
    /\ pg_pc' = "ValueError"
    /\ UNCHANGED <<generic_setups, pg_others>>

\* The loop is over: lines 164-167.
ReturnCombinations ==
    /\ pg_pc = "loop"
    /\ generic_setups' = Combinations(result_raw)
    /\ pg_pc' = "returned"
    /\ UNCHANGED <<command_line_argument, result_raw, pg_others>>

---------------------------------------------------------------------------
(* Specifications of parse_generics.                                       *)

\* parse_generics on a command line of at most MaxValues values.
InitGenerics == PGInit /\ SRIdle /\ VNIdle /\ CSIdle /\ RSIdle /\ BDIdle /\ HFIdle /\ SMIdle /\ LFIdle /\ TRIdle /\ HPIdle /\ FGIdle

NextGenerics ==
    \/ ParseArgument(ArgPool, MaxValues, MaxValues)
    \/ RaiseValueError(ArgPool, MaxValues, MaxValues)
    \/ ReturnCombinations

SpecGenerics == InitGenerics /\ [][NextGenerics]_vars

\* parse_generics on a command line of one argument, any text.
InitGenericArgument == PGInit /\ SRIdle /\ VNIdle /\ CSIdle /\ RSIdle /\ BDIdle /\ HFIdle /\ SMIdle /\ LFIdle /\ TRIdle /\ HPIdle /\ FGIdle

NextGenericArgument ==
    \/ ParseArgument(PieceArgPool, 1, MaxPieces + 1)
    \/ RaiseValueError(PieceArgPool, 1, MaxPieces + 1)
    \/ ReturnCombinations

SpecGenericArgument == InitGenericArgument /\ [][NextGenericArgument]_vars

---------------------------------------------------------------------------
(* Claims on parse_generics.                                               *)

\* The names and the value lists given on the command line.
GivenNames == [j \in DOMAIN command_line_argument |->
                  ArgumentName(command_line_argument[j])]
GivenValues == [j \in DOMAIN command_line_argument |->
                   ArgumentValues(command_line_argument[j])]

Distinct(names) == \A i, j \in DOMAIN names : i # j => names[i] # names[j]

RECURSIVE ProductOfLengths(_)
ProductOfLengths(lists) ==
    IF lists = <<>> THEN 1 ELSE Len(Head(lists)) * ProductOfLengths(Tail(lists))

\* One index into each value list: an element of the Cartesian product.
IndexTuples(lists) ==
    {t \in [DOMAIN lists -> 1..MaxValues] : \A j \in DOMAIN t : t[j] <= Len(lists[j])}

\* The dictionary that an element of the Cartesian product stands for.
DictOf(names, lists, t) ==
    [n \in Range(names) |->
        LET j == CHOOSE j \in DOMAIN names : names[j] = n
        IN  lists[j][t[j]]]

\* C1: for arguments with pairwise distinct names, the returned list has the
\* product of the value list lengths as its length, every dictionary has
\* exactly the given names as keys, and every element of the Cartesian
\* product of the value lists has exactly one dictionary: a dictionary occurs
\* in the result as often as there are elements of the product it stands for.
C1_AllCombinations ==
    pg_pc = "returned" =>
        LET names == GivenNames
            lists == GivenValues
            tuples == IndexTuples(lists)
            dicts == [t \in tuples |-> DictOf(names, lists, t)]
        IN  Distinct(names) =>
                /\ Len(generic_setups) = ProductOfLengths(lists)
                /\ \A p \in DOMAIN generic_setups :
                       /\ DOMAIN generic_setups[p] = Range(names)
                       /\ \A j \in DOMAIN names :
                              generic_setups[p][names[j]] \in Range(lists[j])
                /\ \A t \in tuples :
                       Cardinality({p \in DOMAIN generic_setups :
                                       generic_setups[p] = dicts[t]})
                           = Cardinality({u \in tuples : dicts[u] = dicts[t]})

\* Witness of C1: two generics of two values each gave four dictionaries.
C1_Witness ==
    /\ pg_pc = "returned"
    /\ Distinct(GivenNames)
    /\ Len(command_line_argument) = 2
    /\ \A j \in DOMAIN GivenValues : Len(GivenValues[j]) = 2
    /\ Len(generic_setups) = 4

\* 'true' or 'false' in any letter case, read letter by letter.
IsBoolWord(s) ==
    \/ /\ Len(s) = 4
       /\ s[1] \in {"t", "T"} /\ s[2] \in {"r", "R"}
       /\ s[3] \in {"u", "U"} /\ s[4] \in {"e", "E"}
    \/ /\ Len(s) = 5
       /\ s[1] \in {"f", "F"} /\ s[2] \in {"a", "A"} /\ s[3] \in {"l", "L"}
       /\ s[4] \in {"s", "S"} /\ s[5] \in {"e", "E"}

IsDecimal(s) == Len(s) >= 1 /\ \A i \in DOMAIN s : s[i] \in Digits

\* The argument is 'name=v1,v2,...': one '=', text before it, text after it,
\* and between any two neighbouring commas (or ends) of the text after it a
\* boolean word or a decimal number.
WellFormedArgument(a) ==
    \E e \in DOMAIN a :
        /\ a[e] = "="
        /\ \A i \in DOMAIN a : a[i] = "=" => i = e
        /\ 1 < e /\ e < Len(a)
        /\ LET cuts == {e, Len(a) + 1} \cup {i \in (e + 1)..Len(a) : a[i] = ","}
           IN  \A b, c \in cuts :
                   (b < c /\ \A d \in cuts : ~(b < d /\ d < c))
                       => LET value == SubSeq(a, b + 1, c - 1)
                          IN  IsBoolWord(value) \/ IsDecimal(value)

IsBoolOrNat(v) ==
    \/ v.type = "bool" /\ v.val \in {0, 1}
    \/ v.type = "int" /\ v.val \in Nat

\* C2: an argument is accepted only if it is well-formed; any other argument
\* raises ValueError and nothing is returned; every value of every returned
\* dictionary is a boolean or a non-negative integer.
C2_AcceptsOnlyWellFormed ==
    /\ Len(command_line_argument) = 1 =>
           /\ pg_pc = "ValueError" <=> ~WellFormedArgument(command_line_argument[1])
           /\ pg_pc = "ValueError" => generic_setups = NoResult
    /\ pg_pc = "returned" =>
           \A p \in DOMAIN generic_setups :
               \A n \in DOMAIN generic_setups[p] : IsBoolOrNat(generic_setups[p][n])

\* Witness of C2: an argument with one '=', a name and a value part is
\* refused for one of its values, after another argument shape was accepted.
C2_Witness ==
    /\ pg_pc = "ValueError"
    /\ Len(command_line_argument) = 1
    /\ HasOneEquals(command_line_argument[1])
    /\ ~NameOrValuesEmpty(StrSplit(command_line_argument[1], "=")[1],
                          StrSplit(command_line_argument[1], "=")[2])
    /\ Len(StrSplit(StrSplit(command_line_argument[1], "=")[2], ",")) = 2

---------------------------------------------------------------------------
(* tools/build.py: setup_and_run.                                          *)

\* The flags of the namespace that setup_and_run reads (lines 31-50).
ArgumentNamespaces ==
    [list_only : BOOLEAN, generate_registers_only : BOOLEAN, open : BOOLEAN,
     use_existing_project : BOOLEAN, create_only : BOOLEAN,
     synth_only : BOOLEAN, netlist_builds : BOOLEAN]

SRInit ==
    /\ args \in ArgumentNamespaces
    /\ sr_pc = "start"
    /\ sr_locals = Empty
    /\ sr_calls = <<>>
    /\ sr_return = NoResult

\* return <code>
SRReturn(code) ==
    /\ sr_pc' = "returned"
    /\ sr_return' = <<code>>

\* Lines 105-107.
ListOnly ==
    /\ sr_pc = "start"
    /\ args.list_only
    /\ sr_calls' = Append(sr_calls, "print")
    /\ SRReturn(0)
    /\ UNCHANGED <<args, sr_locals, sr_others>>

\* Mutant of GenerateRegistersOnly: the branch does not wait for the test
\* of --list-only.
GenerateRegistersBeforeList ==
    /\ sr_pc = "start"
    /\ args.generate_registers_only
    /\ sr_calls' = Append(sr_calls, "generate_registers")
    /\ SRReturn(0)
    /\ UNCHANGED <<args, sr_locals, sr_others>>

\* Lines 109-113.
GenerateRegistersOnly ==
    /\ sr_pc = "start"
    /\ ~args.list_only
    /\ args.generate_registers_only
    /\ sr_calls' = Append(sr_calls, "generate_registers")
    /\ SRReturn(0)
    /\ UNCHANGED <<args, sr_locals, sr_others>>

\* Lines 115-117.
OpenProjects ==
    /\ sr_pc = "start"
    /\ ~args.list_only
    /\ ~args.generate_registers_only
    /\ args.open
    /\ sr_calls' = Append(sr_calls, "open")
    /\ SRReturn(0)
    /\ UNCHANGED <<args, sr_locals, sr_others>>

\* The three early returns of lines 105-117 were not taken.
ReachesCreation ==
    /\ ~args.list_only
    /\ ~args.generate_registers_only
    /\ ~args.open

\* Lines 119-124: the call reports success or failure.
CreateUnlessExists ==
    /\ sr_pc = "start"
    /\ ReachesCreation
    /\ args.use_existing_project
    /\ \E ok \in BOOLEAN : sr_locals' = sr_locals @@ ("create_ok" :> ok)
    /\ sr_calls' = Append(sr_calls, "create_unless_exists")
    /\ sr_pc' = "created"
    /\ UNCHANGED <<args, sr_return, sr_others>>

\* Lines 125-130.
Create ==
    /\ sr_pc = "start"
    /\ ReachesCreation
    /\ ~args.use_existing_project
    /\ \E ok \in BOOLEAN : sr_locals' = sr_locals @@ ("create_ok" :> ok)
    /\ sr_calls' = Append(sr_calls, "create")
    /\ sr_pc' = "created"
    /\ UNCHANGED <<args, sr_return, sr_others>>

\* Lines 132-133.
ReturnCreateFailed ==
    /\ sr_pc = "created"
    /\ ~sr_locals.create_ok
    /\ SRReturn(1)
    /\ UNCHANGED <<args, sr_locals, sr_calls, sr_others>>

\* Lines 135-136.
ReturnCreateOnly ==
    /\ sr_pc = "created"
    /\ sr_locals.create_ok
    /\ args.create_only
    /\ SRReturn(0)
    /\ UNCHANGED <<args, sr_locals, sr_calls, sr_others>>

\* Lines 139-141.
CollectArtifactsFunction ==
    IF args.synth_only \/ args.netlist_builds THEN "None" ELSE "collect_artifacts"

\* Mutant of Build: the returns of lines 132-136 are missing.
BuildWhateverCreationSaid ==
    /\ sr_pc = "created"
    /\ \E ok \in BOOLEAN :
           sr_locals' = sr_locals @@ ("collect_artifacts_function" :> CollectArtifactsFunction)
                                  @@ ("build_ok" :> ok)
    /\ sr_calls' = Append(sr_calls, "build")
    /\ sr_pc' = "built"
    /\ UNCHANGED <<args, sr_return, sr_others>>

\* Lines 139-150: the build reports success or failure.
Build ==
    /\ sr_pc = "created"
    /\ sr_locals.create_ok
    /\ ~args.create_only
    /\ \E ok \in BOOLEAN :
           sr_locals' = sr_locals @@ ("collect_artifacts_function" :> CollectArtifactsFunction)
                                  @@ ("build_ok" :> ok)
    /\ sr_calls' = Append(sr_calls, "build")
    /\ sr_pc' = "built"
    /\ UNCHANGED <<args, sr_return, sr_others>>

\* Mutant of BuildReturnCode: the two return values are swapped.
BuildReturnCodeSwapped == IF sr_locals.build_ok THEN 1 ELSE 0

\* Lines 152-154.
BuildReturnCode == IF sr_locals.build_ok THEN 0 ELSE 1

ReturnBuildResult ==
    /\ sr_pc = "built"
    /\ SRReturn(BuildReturnCode)
    /\ UNCHANGED <<args, sr_locals, sr_calls, sr_others>>

InitBuild == SRInit /\ PGIdle /\ VNIdle /\ CSIdle /\ RSIdle /\ BDIdle /\ HFIdle /\ SMIdle /\ LFIdle /\ TRIdle /\ HPIdle /\ FGIdle

NextBuild ==
    \/ ListOnly
    \/ GenerateRegistersOnly
    \/ OpenProjects
    \/ CreateUnlessExists
    \/ Create
    \/ ReturnCreateFailed
    \/ ReturnCreateOnly
    \/ Build
    \/ ReturnBuildResult

SpecBuild == InitBuild /\ [][NextBuild]_vars

---------------------------------------------------------------------------
(* Claims on setup_and_run.                                                *)

Called(fn) == \E i \in DOMAIN sr_calls : sr_calls[i] = fn

CreationFailed ==
    /\ Called("create") \/ Called("create_unless_exists")
    /\ ~sr_locals.create_ok

BuildFailed == Called("build") /\ ~sr_locals.build_ok

\* C3: setup_and_run returns 1 whenever project creation or the build has
\* reported failure, and 0 only when no step that was performed reported
\* failure: after listing, after generating registers, after opening, after
\* a successful creation with --create-only, or after a successful creation
\* and a successful build.
C3_ReturnCode ==
    sr_pc = "returned" =>
        /\ sr_return \in {<<0>>, <<1>>}
        /\ (CreationFailed \/ BuildFailed) => sr_return = <<1>>
        /\ sr_return = <<0>> =>
               \/ sr_calls = <<"print">> /\ args.list_only
               \/ sr_calls = <<"generate_registers">> /\ args.generate_registers_only
               \/ sr_calls = <<"open">> /\ args.open
               \/ /\ sr_calls \in {<<"create">>, <<"create_unless_exists">>}
                  /\ args.create_only
                  /\ sr_locals.create_ok
               \/ /\ sr_calls \in {<<"create", "build">>, <<"create_unless_exists", "build">>}
                  /\ sr_locals.create_ok
                  /\ sr_locals.build_ok
        /\ sr_return = <<1>> => (CreationFailed \/ BuildFailed)

\* Witness of C3: the projects were created, the build failed, 1 was returned.
C3_Witness ==
    /\ sr_pc = "returned"
    /\ sr_return = <<1>>
    /\ Called("build")
    /\ sr_locals.create_ok
    /\ ~sr_locals.build_ok

\* The number of calls of a function so far.
CallCount(fn) == Cardinality({i \in DOMAIN sr_calls : sr_calls[i] = fn})

\* The position of the first call of a function, or 0.
FirstCall(fn) ==
    IF Called(fn) THEN CHOOSE i \in DOMAIN sr_calls :
                           sr_calls[i] = fn /\ \A j \in 1..(i - 1) : sr_calls[j] # fn
    ELSE 0

\* The call that creates the projects under the given arguments.
CreationCall == IF args.use_existing_project THEN "create_unless_exists" ELSE "create"

\* The other call that creates projects.
OtherCreationCall == IF args.use_existing_project THEN "create" ELSE "create_unless_exists"

\* C11: the build is started only after project creation has reported
\* success and never with --create-only; a run that reaches creation calls
\* exactly one of create_unless_exists (with --use-existing-project) and
\* create (otherwise), exactly once.
C11_BuildAfterCreation ==
    /\ Called("build") =>
           /\ CallCount("build") = 1
           /\ FirstCall(CreationCall) = 1
           /\ FirstCall("build") = 2
           /\ sr_locals.create_ok
           /\ ~args.create_only
    /\ (ReachesCreation /\ sr_pc # "start") =>
           /\ CallCount(CreationCall) = 1
           /\ CallCount(OtherCreationCall) = 0
    /\ ~ReachesCreation =>
           /\ CallCount("create") = 0
           /\ CallCount("create_unless_exists") = 0
           /\ CallCount("build") = 0
    /\ (sr_pc = "created" /\ (args.create_only \/ ~sr_locals.create_ok)) => ~ENABLED Build

\* Witness of C11: with --use-existing-project the projects were created
\* unless they existed, and then the build was started.
C11_Witness ==
    /\ sr_pc = "built"
    /\ args.use_existing_project
    /\ sr_calls = <<"create_unless_exists", "build">>
    /\ sr_locals.create_ok

\* The first of the three flags that is given.
FirstOnlyAction ==
    IF args.list_only THEN "print"
    ELSE IF args.generate_registers_only THEN "generate_registers"
    ELSE "open"

\* C12: with --list-only, --generate-registers-only or --open, only that
\* one action is performed (the first of the three, in this order, when
\* several are given), no project is created or built, and 0 is returned.
C12_OnlyThatAction ==
    (args.list_only \/ args.generate_registers_only \/ args.open) =>
        /\ sr_pc \in {"start", "returned"}
        /\ sr_pc = "start" => sr_calls = <<>> /\ sr_return = NoResult
        /\ sr_pc = "returned" =>
               /\ sr_calls = <<FirstOnlyAction>>
               /\ sr_return = <<0>>
        /\ sr_locals = Empty
        /\ ~ENABLED (Create \/ CreateUnlessExists \/ Build)

\* Witness of C12: all three flags were given; the projects were listed and
\* nothing else was done.
C12_Witness ==
    /\ args.list_only /\ args.generate_registers_only /\ args.open
    /\ sr_pc = "returned"
    /\ sr_calls = <<"print">>
    /\ sr_return = <<0>>

---------------------------------------------------------------------------
(* tools/tag_release.py: verify_new_version_number.                        *)
(*                                                                         *)
(* packaging.version.parse is modelled for the versions that occur here:   *)
(* a release 'N.N...' with an optional '-dev' at its end.  A parsed        *)
(* version is [valid, release, dev].                                       *)

DevSuffix == <<"-", "d", "e", "v">>

HasDevSuffix(text) ==
    Len(text) >= Len(DevSuffix)
        /\ SubSeq(text, Len(text) - Len(DevSuffix) + 1, Len(text)) = DevSuffix

RECURSIVE IntOfEach(_)
IntOfEach(parts) ==
    IF parts = <<>> THEN <<>> ELSE <<IntOfDigits(Head(parts))>> \o IntOfEach(Tail(parts))

\* parse(text); not valid is InvalidVersion.
ParseVersion(text) ==
    LET dev == HasDevSuffix(text)
        release == IF dev THEN SubSeq(text, 1, Len(text) - Len(DevSuffix)) ELSE text
        parts == StrSplit(release, ".")
        valid == \A i \in DOMAIN parts : StrIsDigit(parts[i])
    IN  [valid |-> valid,
         release |-> IF valid THEN IntOfEach(parts) ELSE <<>>,
         dev |-> dev]

\* The release segment at a position; a shorter release is padded with zeros.
Segment(release, i) == IF i <= Len(release) THEN release[i] ELSE 0

\* The order of two parsed versions, a < b: by release, and a development
\* version before the release it leads to.
VersionLess(a, b) ==
    LET n == IF Len(a.release) >= Len(b.release) THEN Len(a.release) ELSE Len(b.release)
    IN  \/ \E i \in 1..n :
               /\ Segment(a.release, i) < Segment(b.release, i)
               /\ \A j \in 1..(i - 1) : Segment(a.release, j) = Segment(b.release, j)
        \/ /\ \A i \in 1..n : Segment(a.release, i) = Segment(b.release, i)
           /\ a.dev /\ ~b.dev

VersionEqual(a, b) == ~VersionLess(a, b) /\ ~VersionLess(b, a)

\* parse(a) <= parse(b), lines 72 and 84.
VersionLessOrEqual(a, b) == VersionLess(a, b) \/ VersionEqual(a, b)

\* UNRELEASED_EMPTY of tsfpga: the text of a release notes file without notes.
UNRELEASED_EMPTY == "Nothing here yet.\n"

\* Line 75: f"v{new_version}"
NewGitTag == <<"v">> \o new_version

\* Line 83: the parts of existing_tag_str.split("v")
TagParts(existing_tag_str) == StrSplit(existing_tag_str, "v")

\* The version texts and the tag names of the model.
NewVersionPool ==
    {<<"1", ".", "0">>, <<"1", ".", "0", ".", "0">>, <<"1", ".", "1", ".", "0">>,
     <<"1", ".", "x">>}
CurrentVersionPool ==
    {<<"1", ".", "0", ".", "0">>, <<"1", ".", "0", ".", "0">> \o DevSuffix,
     <<"1", ".", "1", ".", "0">> \o DevSuffix}
TagPool ==
    {<<"v", "0", ".", "9", ".", "0">>, <<"v", "1", ".", "0", ".", "0">>,
     <<"v", "1", ".", "1", ".", "0">>, <<"v", "1", ".", "0">>,
     <<"n", "i", "g", "h", "t", "l", "y">>,
     <<"v", "0", ".", "9", ".", "0">> \o DevSuffix}

\* Bound: the tags of the repository.
MaxTags == 2

VNInit ==
    /\ repo_is_dirty \in BOOLEAN
    /\ unreleased_notes \in {"", UNRELEASED_EMPTY, "Added\n-----\n* A new entity.\n"}
    /\ new_version \in NewVersionPool
    /\ current_version \in CurrentVersionPool
    /\ repo_tags \in SeqsUpTo(TagPool, MaxTags)
    /\ vn_pc = "start"
    /\ tag_index = 0
    /\ vn_return = NoResult
    /\ vn_message = ""

\* sys.exit(message), or an exception that nothing catches.
VNEnd(pc, message) ==
    /\ vn_pc' = pc
    /\ vn_message' = message
    /\ UNCHANGED <<repo_is_dirty, unreleased_notes, new_version, current_version,
                   repo_tags, tag_index, vn_return, vn_others>>

\* Lines 65-66.
ExitDirty ==
    /\ vn_pc = "start"
    /\ repo_is_dirty
    /\ VNEnd("exited", "Must make release from clean repo")

\* Line 69.
NotesEmpty == unreleased_notes \in {"", UNRELEASED_EMPTY}

\* Lines 68-70.
ExitNotesEmpty ==
    /\ vn_pc = "start"
    /\ ~repo_is_dirty
    /\ NotesEmpty
    /\ VNEnd("exited", "The unreleased notes file should not be empty")

\* Line 72: parse(new_version) raises InvalidVersion.
RaiseInvalidNewVersion ==
    /\ vn_pc = "start"
    /\ ~repo_is_dirty
    /\ ~NotesEmpty
    /\ ~ParseVersion(new_version).valid
    /\ VNEnd("raised", "InvalidVersion")

\* Line 72.
NotGreaterThanCurrent ==
    VersionLessOrEqual(ParseVersion(new_version), ParseVersion(current_version))

\* Lines 72-73.
ExitNotGreaterThanCurrent ==
    /\ vn_pc = "start"
    /\ ~repo_is_dirty
    /\ ~NotesEmpty
    /\ ParseVersion(new_version).valid
    /\ NotGreaterThanCurrent
    /\ VNEnd("exited", "New version is not greater than current version")

\* Lines 65-76: no check fails, the loop over the tags starts.
EnterTagLoop ==
    /\ vn_pc = "start"
    /\ ~repo_is_dirty
    /\ ~NotesEmpty
    /\ ParseVersion(new_version).valid
    /\ ~NotGreaterThanCurrent
    /\ vn_pc' = "tags"
    /\ tag_index' = 1
    /\ UNCHANGED <<repo_is_dirty, unreleased_notes, new_version, current_version,
                   repo_tags, vn_return, vn_message, vn_others>>

InTagLoop == vn_pc = "tags" /\ tag_index <= Len(repo_tags)

\* Lines 79-80.
ExitTagExists ==
    /\ InTagLoop
    /\ NewGitTag = repo_tags[tag_index]
    /\ VNEnd("exited", "Git release tag already exists")

\* Line 83: the index [1] is out of range.
RaiseIndexError ==
    /\ InTagLoop
    /\ NewGitTag # repo_tags[tag_index]
    /\ Len(TagParts(repo_tags[tag_index])) < 2
    /\ VNEnd("raised", "IndexError")

\* Line 84: parse(existing_version) raises InvalidVersion.
RaiseInvalidTagVersion ==
    /\ InTagLoop
    /\ NewGitTag # repo_tags[tag_index]
    /\ Len(TagParts(repo_tags[tag_index])) >= 2
    /\ ~ParseVersion(TagParts(repo_tags[tag_index])[2]).valid
    /\ VNEnd("raised", "InvalidVersion")

\* Mutant of NotGreaterThanTag: '<' for '<='.
LessThanTag(existing_version) ==
    VersionLess(ParseVersion(new_version), ParseVersion(existing_version))

\* Line 84, for a tag with a version.
NotGreaterThanTag(existing_version) ==
    VersionLessOrEqual(ParseVersion(new_version), ParseVersion(existing_version))

\* Lines 84-85.
ExitNotGreaterThanTag ==
    /\ InTagLoop
    /\ NewGitTag # repo_tags[tag_index]
    /\ Len(TagParts(repo_tags[tag_index])) >= 2
    /\ ParseVersion(TagParts(repo_tags[tag_index])[2]).valid
    /\ NotGreaterThanTag(TagParts(repo_tags[tag_index])[2])
    /\ VNEnd("exited", "New version is not greater than existing tag")

\* Lines 76-85: the tag passes, the loop goes on.
NextTag ==
    /\ InTagLoop
    /\ NewGitTag # repo_tags[tag_index]
    /\ Len(TagParts(repo_tags[tag_index])) >= 2
    /\ ParseVersion(TagParts(repo_tags[tag_index])[2]).valid
    /\ ~NotGreaterThanTag(TagParts(repo_tags[tag_index])[2])
    /\ tag_index' = tag_index + 1
    /\ UNCHANGED <<repo_is_dirty, unreleased_notes, new_version, current_version,
                   repo_tags, vn_pc, vn_return, vn_message, vn_others>>

\* Line 87.
ReturnNewGitTag ==
    /\ vn_pc = "tags"
    /\ tag_index > Len(repo_tags)
    /\ vn_pc' = "returned"
    /\ vn_return' = <<NewGitTag>>
    /\ UNCHANGED <<repo_is_dirty, unreleased_notes, new_version, current_version,
                   repo_tags, tag_index, vn_message, vn_others>>

InitVerify == VNInit /\ PGIdle /\ SRIdle /\ CSIdle /\ RSIdle /\ BDIdle /\ HFIdle /\ SMIdle /\ LFIdle /\ TRIdle /\ HPIdle /\ FGIdle

NextVerify ==
    \/ ExitDirty
    \/ ExitNotesEmpty
    \/ RaiseInvalidNewVersion
    \/ ExitNotGreaterThanCurrent
    \/ EnterTagLoop
    \/ ExitTagExists
    \/ RaiseIndexError
    \/ RaiseInvalidTagVersion
    \/ ExitNotGreaterThanTag
    \/ NextTag
    \/ ReturnNewGitTag

SpecVerify == InitVerify /\ [][NextVerify]_vars

---------------------------------------------------------------------------
(* Claims on verify_new_version_number.                                    *)

\* The tag is 'v<version>' for a version.
IsVersionTag(tag) == tag # <<>> /\ Head(tag) = "v" /\ ParseVersion(Tail(tag)).valid

\* a is strictly greater than b: the first release segment in which they
\* differ is greater in a, or they have the same release and only b is a
\* development version.
StrictlyGreater(a, b) ==
    LET pa == ParseVersion(a)
        pb == ParseVersion(b)
        differ == {i \in 1..(Len(pa.release) + Len(pb.release)) :
                      Segment(pa.release, i) # Segment(pb.release, i)}
    IN  /\ pa.valid /\ pb.valid
        /\ IF differ = {}
           THEN pb.dev /\ ~pa.dev
           ELSE LET first == CHOOSE i \in differ : \A j \in differ : i <= j
                IN  Segment(pa.release, first) > Segment(pb.release, first)

\* C4: the tag 'v<new_version>' is returned only if the repository is clean,
\* the unreleased notes are not empty, the new version is strictly greater
\* than the current version and than the version of every existing tag, and
\* no existing tag equals the new tag; in every other case the program ends
\* with an error message (sys.exit, or an exception that main does not catch)
\* and nothing is returned.
C4_ReturnsOnlyVerified ==
    /\ vn_pc = "returned" =>
           /\ vn_return = << <<"v">> \o new_version >>
           /\ ~repo_is_dirty
           /\ unreleased_notes # "" /\ unreleased_notes # UNRELEASED_EMPTY
           /\ StrictlyGreater(new_version, current_version)
           /\ \A i \in DOMAIN repo_tags :
                  /\ repo_tags[i] # <<"v">> \o new_version
                  /\ IsVersionTag(repo_tags[i])
                  /\ StrictlyGreater(new_version, Tail(repo_tags[i]))
    /\ vn_pc # "returned" => vn_return = NoResult
    /\ vn_pc \in {"exited", "raised"} => vn_message # ""
    /\ vn_pc \in {"start", "tags", "returned", "exited", "raised"}
    /\ vn_pc = "tags" => tag_index \in 1..(Len(repo_tags) + 1)

\* Witness of C4: a tag was returned in a repository with two tags.
C4_Witness ==
    /\ vn_pc = "returned"
    /\ Len(repo_tags) = 2
    /\ repo_tags[1] # repo_tags[2]

---------------------------------------------------------------------------
(* modules/sine_generator/module_sine_generator.py:                        *)
(* get_coherent_sampling_count.                                            *)

\* Bound: the greatest frequency, in Hz.
MaxHz == 12

\* Mutant of Gcd: the smaller of the two numbers.
Smaller(a, b) == IF a <= b THEN a ELSE b

RECURSIVE Gcd(_, _)
\* math.gcd, by Euclid's algorithm.
Gcd(a, b) == IF b = 0 THEN a ELSE Gcd(b, a % b)

\* Line 603: the true division a / b as a float, [whole, remainder]; the
\* division is exact for numbers of this size.
TrueDivide(a, b) == [whole |-> a \div b, remainder |-> a % b]

\* float.is_integer()
IsInteger(x) == x.remainder = 0

CSInit ==
    /\ sample_rate_hz \in 1..MaxHz
    /\ sine_frequency_hz \in 1..MaxHz
    /\ cs_pc = "start"
    /\ cs_return = NoResult

\* Lines 599-606.
GetCoherentSamplingCount ==
    /\ cs_pc = "start"
    /\ LET greatest_common_divisor == Gcd(sample_rate_hz, sine_frequency_hz)
           result_hz == TrueDivide(sample_rate_hz, greatest_common_divisor)
       IN  IF IsInteger(result_hz)
           THEN cs_pc' = "returned" /\ cs_return' = <<result_hz.whole>>
           ELSE cs_pc' = "AssertionError" /\ cs_return' = cs_return
    /\ UNCHANGED <<sample_rate_hz, sine_frequency_hz, cs_others>>

InitSampling == CSInit /\ PGIdle /\ SRIdle /\ VNIdle /\ RSIdle /\ BDIdle /\ HFIdle /\ SMIdle /\ LFIdle /\ TRIdle /\ HPIdle /\ FGIdle

NextSampling == GetCoherentSamplingCount

SpecSampling == InitSampling /\ [][NextSampling]_vars

---------------------------------------------------------------------------
(* Claims on get_coherent_sampling_count.                                  *)

\* n samples hold a whole number of sine cycles.
WholeCycles(n) == (n * sine_frequency_hz) % sample_rate_hz = 0

GreatestCommonDivisor(a, b) ==
    CHOOSE d \in 1..a :
        /\ a % d = 0 /\ b % d = 0
        /\ \A e \in 1..a : (a % e = 0 /\ b % e = 0) => e <= d

---------------------------------------------------------------------------
(* modules/resync/module_resync.py: setup_resync_twophase_handshake_tests. *)
(*                                                                         *)
(* A dict is a function from its keys; a test is its position in           *)
(* tb.get_tests().                                                         *)

\* dict[key] = value
DictSet(dict, key, value) == (key :> value) @@ dict

\* Lines 103-109.
Modes ==
    <<"result_clock_is_greatly_faster", "result_clock_is_mildly_faster",
      "clocks_are_same", "result_clock_is_mildly_slower",
      "result_clock_is_greatly_slower">>

\* The names that a test of the test bench may have.
TestNamePool ==
    {"test_random_data", "test_count_sampling_period", "test_init_state",
     "test_reset_state"}

\* Bound: the tests of the test bench.
MaxTests == 3

\* Line 110.
ModeGenerics(mode) == mode :> BoolValue(TRUE)

RSInit ==
    /\ rs_tests \in {tests \in SeqsUpTo(TestNamePool, MaxTests) : Distinct(tests)}
    /\ rs_pc = "loop"
    /\ mode_index = 1
    /\ test_index = 1
    /\ generics = ModeGenerics(Modes[1])
    /\ rs_configs = <<>>
    /\ rs_message = <<>>

\* self.add_vunit_config(test, generics=generics, set_random_seed=seed)
VunitConfig(test, dict, seed) == [test |-> test, generics |-> dict, set_random_seed |-> seed]

\* Mutant of Branch: the last branch is an else that takes every other test.
BranchElseInitState(name) ==
    CASE name = "test_random_data" -> "random_data"
      [] name = "test_count_sampling_period" -> "count_sampling_period"
      [] OTHER -> "init_state"

\* Lines 113-126: the branch that a test name takes.
Branch(name) ==
    CASE name = "test_random_data" -> "random_data"
      [] name = "test_count_sampling_period" -> "count_sampling_period"
      [] name = "test_init_state" -> "init_state"
      [] OTHER -> "raise"

InTestLoop(branch) ==
    /\ rs_pc = "loop"
    /\ test_index <= Len(rs_tests)
    /\ Branch(rs_tests[test_index]) = branch

\* Lines 113-116.
ConfigRandomData ==
    /\ InTestLoop("random_data")
    /\ LET generics8 == DictSet(generics, "data_width", IntValue(8))
           generics16 == DictSet(generics8, "data_width", IntValue(16))
       IN  /\ generics' = generics16
           /\ rs_configs' = rs_configs \o
                  <<VunitConfig(test_index, generics8, BoolValue(TRUE)),
                    VunitConfig(test_index, generics16, BoolValue(TRUE))>>
    /\ test_index' = test_index + 1
    /\ UNCHANGED <<rs_tests, rs_pc, mode_index, rs_message, rs_others>>

\* Lines 118-120.
ConfigCountSamplingPeriod ==
    /\ InTestLoop("count_sampling_period")
    /\ generics' = DictSet(generics, "stall_probability_percent", IntValue(0))
    /\ rs_configs' = Append(rs_configs, VunitConfig(test_index, generics', BoolValue(TRUE)))
    /\ test_index' = test_index + 1
    /\ UNCHANGED <<rs_tests, rs_pc, mode_index, rs_message, rs_others>>

\* Lines 122-123.
ConfigInitState ==
    /\ InTestLoop("init_state")
    /\ rs_configs' = Append(rs_configs, VunitConfig(test_index, generics, IntValue(0)))
    /\ test_index' = test_index + 1
    /\ UNCHANGED <<rs_tests, rs_pc, mode_index, generics, rs_message, rs_others>>

\* Lines 125-126.
RaiseUnknownTest ==
    /\ InTestLoop("raise")
    /\ rs_pc' = "RuntimeError"
    /\ rs_message' = <<"Unknown test: ", rs_tests[test_index]>>
    /\ UNCHANGED <<rs_tests, mode_index, test_index, generics, rs_configs, rs_others>>

\* Lines 103-112: the tests are done for this mode, the next mode starts.
NextMode ==
    /\ rs_pc = "loop"
    /\ test_index > Len(rs_tests)
    /\ mode_index < Len(Modes)
    /\ mode_index' = mode_index + 1
    /\ generics' = ModeGenerics(Modes[mode_index + 1])
    /\ test_index' = 1
    /\ UNCHANGED <<rs_tests, rs_pc, rs_configs, rs_message, rs_others>>

\* The tests are done for the last mode.
ReturnFromSetup ==
    /\ rs_pc = "loop"
    /\ test_index > Len(rs_tests)
    /\ mode_index = Len(Modes)
    /\ rs_pc' = "returned"
    /\ UNCHANGED <<rs_tests, mode_index, test_index, generics, rs_configs, rs_message,
                   rs_others>>

InitResync == RSInit /\ PGIdle /\ SRIdle /\ VNIdle /\ CSIdle /\ BDIdle /\ HFIdle /\ SMIdle /\ LFIdle /\ TRIdle /\ HPIdle /\ FGIdle

NextResync ==
    \/ ConfigRandomData
    \/ ConfigCountSamplingPeriod
    \/ ConfigInitState
    \/ RaiseUnknownTest
    \/ NextMode
    \/ ReturnFromSetup

SpecResync == InitResync /\ [][NextResync]_vars

---------------------------------------------------------------------------
(* Claims on setup_resync_twophase_handshake_tests.                        *)

KnownTestNames == {"test_random_data", "test_count_sampling_period", "test_init_state"}

\* The positions of the tests with an unknown name.
UnknownTests == {i \in DOMAIN rs_tests : rs_tests[i] \notin KnownTestNames}

\* C6: RuntimeError is raised as soon as the test bench returns a test with
\* an unknown name: in the first mode, at the first such test, which the
\* message names; no configuration is ever registered for that test or for a
\* test after it, and the setup does not return.
C6_UnknownTestRaises ==
    /\ UnknownTests # {} =>
           LET first == CHOOSE i \in UnknownTests : \A j \in UnknownTests : i <= j
           IN  /\ mode_index = 1
               /\ test_index <= first
               /\ rs_pc # "returned"
               /\ \A c \in DOMAIN rs_configs : rs_configs[c].test < first
               /\ rs_pc = "RuntimeError" =>
                      /\ test_index = first
                      /\ rs_message = <<"Unknown test: ", rs_tests[first]>>
                      /\ \A i \in 1..(first - 1) :
                             \E c \in DOMAIN rs_configs : rs_configs[c].test = i
               /\ (rs_pc = "loop" /\ test_index = first) => ENABLED RaiseUnknownTest
    /\ UnknownTests = {} => rs_pc # "RuntimeError"

\* Witness of C6: the unknown test came after two known tests, which have
\* their configurations.
C6_Witness ==
    /\ rs_pc = "RuntimeError"
    /\ test_index = 3
    /\ Len(rs_configs) >= 2

---------------------------------------------------------------------------
(* tools/build_docs.py: generate_documentation and get_readme_rst.         *)
(*                                                                         *)
(* A text is the sequence of its parts, a path the sequence of its names.   *)

\* Lines 128-137.
ExtraRst(include_link_to_website, include_link_to_gitlab) ==
    IF include_link_to_website
    THEN "**See documentation on the website**: https://hdl-modules.com\n"
    ELSE IF include_link_to_gitlab
    THEN "This website contains human-readable documentation of the modules.\n"
    ELSE ""

\* Lines 127-207: get_rst.
GetRst(include_link_to_website, include_link_to_gitlab) ==
    <<"About hdl_modules\n",
      ExtraRst(include_link_to_website, include_link_to_gitlab),
      "The code is designed to be reusable and portable\n">>

\* The paths of the model.
RootReadme == <<"readme.rst">>
GeneratedReadme == <<"generated", "sphinx", "readme.rst">>
GeneratedIndex == <<"generated", "sphinx", "index.rst">>
ModuleDocument(name) == <<"generated", "sphinx", "modules", name>>

\* The module names, in the order of sorted().
ModuleNamePool == <<"axi", "bfm", "common">>

\* Bound: the modules of the repository.
MaxModules == 2

\* What readme.rst in the repository root may hold.
RootReadmePool ==
    {GetRst(TRUE, FALSE), GetRst(FALSE, TRUE), GetRst(FALSE, FALSE),
     <<"About hdl_modules\n",
       "**See documentation on the website**: https://hdl-modules.com\n",
       "The code is designed to be portable\n">>}

\* What the generated folder may hold of an earlier run.
EarlierFilesPool ==
    {Empty,
     GeneratedIndex :> <<"index of an earlier run\n">>,
     GeneratedReadme :> <<"readme of an earlier run\n">>,
     (GeneratedIndex :> <<"index of an earlier run\n">>)
         @@ (GeneratedReadme :> <<"readme of an earlier run\n">>)}

BDInit ==
    /\ \E readme \in RootReadmePool, earlier \in EarlierFilesPool :
           bd_files = (RootReadme :> readme) @@ earlier
    /\ bd_modules \in {modules \in SeqsUpTo(Range(ModuleNamePool), MaxModules) :
                          Distinct(modules)}
    /\ bd_pc = "start"
    /\ bd_readme_rst = NoResult
    /\ index_rst = <<>>
    /\ bd_module_index = 0
    /\ bd_created = <<>>

\* create_file(path, text)
CreateFile(files, path, text) == (path :> text) @@ files

\* Mutant of ReadmeDiffers: the comparison is with the text of the website.
ReadmeDiffersFromWebsiteText ==
    bd_files[RootReadme] # GetRst(FALSE, TRUE)

\* Lines 210-211.
ReadmeDiffers == bd_files[RootReadme] # GetRst(TRUE, FALSE)

\* Lines 210-215: readme.rst is not the reference.
ReadmeNotCorrect ==
    /\ bd_pc = "start"
    /\ ReadmeDiffers
    /\ bd_files' = CreateFile(bd_files, GeneratedReadme, GetRst(TRUE, FALSE))
    /\ bd_created' = Append(bd_created, GeneratedReadme)
    /\ bd_pc' = "AssertionError"
    /\ UNCHANGED <<bd_modules, bd_readme_rst, index_rst, bd_module_index, bd_others>>

\* sorted(modules, key=sort_key), lines 89-92.
RECURSIVE SortedByName(_, _)
SortedByName(modules, names) ==
    IF names = <<>> THEN <<>>
    ELSE (IF Head(names) \in Range(modules) THEN <<Head(names)>> ELSE <<>>)
             \o SortedByName(modules, Tail(names))

\* Lines 61-92 and 210-218: readme.rst is the reference; the index starts
\* with the text that get_readme_rst returns.
ReadmeCorrect ==
    /\ bd_pc = "start"
    /\ ~ReadmeDiffers
    /\ bd_readme_rst' = <<GetRst(FALSE, TRUE)>>
    /\ index_rst' = GetRst(FALSE, TRUE) \o <<".. toctree::\n">>
    /\ bd_modules' = SortedByName(bd_modules, ModuleNamePool)
    /\ bd_module_index' = 1
    /\ bd_pc' = "modules"
    /\ UNCHANGED <<bd_files, bd_created, bd_others>>

\* Lines 94-113: one module.
DocumentModule ==
    /\ bd_pc = "modules"
    /\ bd_module_index <= Len(bd_modules)
    /\ LET name == bd_modules[bd_module_index]
       IN  /\ index_rst' = Append(index_rst, name)
           /\ bd_files' = CreateFile(bd_files, ModuleDocument(name), <<name>>)
           /\ bd_created' = Append(bd_created, ModuleDocument(name))
    /\ bd_module_index' = bd_module_index + 1
    /\ UNCHANGED <<bd_modules, bd_pc, bd_readme_rst, bd_others>>

\* Line 115.
WriteIndex ==
    /\ bd_pc = "modules"
    /\ bd_module_index > Len(bd_modules)
    /\ bd_files' = CreateFile(bd_files, GeneratedIndex, index_rst)
    /\ bd_created' = Append(bd_created, GeneratedIndex)
    /\ bd_pc' = "returned"
    /\ UNCHANGED <<bd_modules, bd_readme_rst, index_rst, bd_module_index, bd_others>>

InitDocs == BDInit /\ PGIdle /\ SRIdle /\ VNIdle /\ CSIdle /\ RSIdle /\ HFIdle /\ SMIdle /\ LFIdle /\ TRIdle /\ HPIdle /\ FGIdle

NextDocs ==
    \/ ReadmeNotCorrect
    \/ ReadmeCorrect
    \/ DocumentModule
    \/ WriteIndex

SpecDocs == InitDocs /\ [][NextDocs]_vars

---------------------------------------------------------------------------
(* Claims on get_readme_rst.                                               *)

\* The generated readme that links to the website, and the text that goes on
\* the website.
ReadmeThatLinksToWebsite ==
    <<"About hdl_modules\n",
      "**See documentation on the website**: https://hdl-modules.com\n",
      "The code is designed to be reusable and portable\n">>
TextOnWebsite ==
    <<"About hdl_modules\n",
      "This website contains human-readable documentation of the modules.\n",
      "The code is designed to be reusable and portable\n">>

Written(path) == \E i \in DOMAIN bd_created : bd_created[i] = path

\* C7: get_readme_rst returns the text of the website only when readme.rst
\* of the repository root is the generated readme that links to the website;
\* when the two differ, the generated reference is written to the generated
\* sphinx folder, the run ends in an AssertionError and no index.rst is
\* written.
C7_ReadmeVerified ==
    /\ bd_readme_rst # NoResult =>
           /\ bd_files[RootReadme] = ReadmeThatLinksToWebsite
           /\ bd_readme_rst = <<TextOnWebsite>>
    /\ (bd_pc # "start" /\ bd_files[RootReadme] # ReadmeThatLinksToWebsite) =>
           /\ bd_pc = "AssertionError"
           /\ bd_readme_rst = NoResult
           /\ bd_created = <<GeneratedReadme>>
           /\ bd_files[GeneratedReadme] = ReadmeThatLinksToWebsite
           /\ ~Written(GeneratedIndex)
    /\ bd_pc = "returned" =>
           /\ Written(GeneratedIndex)
           /\ SubSeq(bd_files[GeneratedIndex], 1, Len(TextOnWebsite)) = TextOnWebsite
    /\ Written(GeneratedIndex) => bd_pc = "returned"

\* Witness of C7: readme.rst held the text of the website instead of the
\* readme; the run failed and the index of an earlier run is as it was.
C7_Witness ==
    /\ bd_pc = "AssertionError"
    /\ bd_files[RootReadme] = TextOnWebsite
    /\ GeneratedIndex \in DOMAIN bd_files
    /\ bd_files[GeneratedIndex] = <<"index of an earlier run\n">>

---------------------------------------------------------------------------
(* modules/hard_fifo/module_hard_fifo.py: get_simulation_files and         *)
(* setup_vunit.  A simulation flow asks the module for its simulation      *)
(* files, adds them to the VUnit project and then lets the module set up   *)
(* its tests (tools/simulate.py, lines 119-124); the flow hands the same   *)
(* include_unisim to both methods.  Paths are written relative to the      *)
(* folder of the module.                                                   *)

\* The value None of an optional argument, and a value that is given.
None == <<>>

Some(value) == <<value>>

TbHardFifo == "test/tb_hard_fifo.vhd"

\* Lines 21-26.
files_to_avoid ==
    {"src/asynchronous_hard_fifo.vhd", "src/fifo36e2_wrapper.vhd",
     "src/hard_fifo.vhd", TbHardFifo}

\* The VHDL files in the folders of the module: the four that depend on
\* unisim and one that does not.
ModuleFiles == files_to_avoid \cup {"src/hard_fifo_pkg.vhd"}

\* Those of them that are in the test folder.
TestFiles == {TbHardFifo}

\* What a caller may give as files_avoid.
FilesAvoidPool ==
    {None, Some({}), Some({"src/hard_fifo_pkg.vhd"}), Some({TbHardFifo}),
     Some({"src/hard_fifo.vhd", "src/hard_fifo_pkg.vhd"})}

\* The further keyword arguments that a caller may give: they reach the
\* method of the base class, which leaves the files of the test folder out
\* when include_tests is false.
KwargsPool == [include_tests : BOOLEAN]

\* The names that a test of tb_hard_fifo may have.
HardFifoTestPool == {"test_fifo_full", "test_fifo_empty", "test_init_state"}

MaxHardFifoTests == 2

HFInit ==
    /\ include_unisim \in BOOLEAN
    /\ files_avoid \in FilesAvoidPool
    /\ hf_kwargs \in KwargsPool
    /\ super_files_avoid = None
    /\ simulation_files = NoResult
    /\ hf_tests \in {tests \in SeqsUpTo(HardFifoTestPool, MaxHardFifoTests) :
                         Distinct(tests)}
    /\ hf_pc = "start"
    /\ hf_test_index = 0
    /\ hf_configs = <<>>

\* Mutant of FilesAvoid: the files of the caller are dropped when the files
\* that depend on unisim are avoided.
FilesAvoidOnlyUnisim(avoid, unisim) ==
    IF ~unisim THEN Some(files_to_avoid) ELSE avoid

\* Lines 28-29.
FilesAvoid(avoid, unisim) ==
    IF ~unisim
    THEN IF avoid = None
         THEN Some(files_to_avoid)
         ELSE Some(avoid[1] \cup files_to_avoid)
    ELSE avoid

\* Line 31, the method of the base class: the files of the module that the
\* keyword arguments ask for and that are not to be avoided.
SuperGetSimulationFiles(avoid, kwargs) ==
    LET files == IF kwargs.include_tests THEN ModuleFiles ELSE ModuleFiles \ TestFiles
    IN  IF avoid = None THEN files ELSE files \ avoid[1]

\* Lines 17-31.
GetSimulationFiles ==
    /\ hf_pc = "start"
    /\ super_files_avoid' = FilesAvoid(files_avoid, include_unisim)
    /\ simulation_files' =
           <<SuperGetSimulationFiles(FilesAvoid(files_avoid, include_unisim),
                                     hf_kwargs)>>
    /\ hf_pc' = "files"
    /\ UNCHANGED <<include_unisim, files_avoid, hf_kwargs, hf_tests, hf_test_index, hf_configs,
                   hf_others>>

\* Lines 33-37, include_unisim false: nothing is set up.
SetupVunitWithoutUnisim ==
    /\ hf_pc = "files"
    /\ ~include_unisim
    /\ hf_pc' = "returned"
    /\ UNCHANGED <<include_unisim, files_avoid, hf_kwargs, super_files_avoid, simulation_files,
                   hf_tests, hf_test_index, hf_configs, hf_others>>

\* Lines 36-37 and 40: the test bench is looked up in the library.
GetTestBench ==
    /\ hf_pc = "files"
    /\ include_unisim
    /\ hf_pc' = "loop"
    /\ hf_test_index' = 1
    /\ UNCHANGED <<include_unisim, files_avoid, hf_kwargs, super_files_avoid, simulation_files,
                   hf_tests, hf_configs, hf_others>>

\* Line 40: a library that was not given tb_hard_fifo.vhd may not have the
\* test bench; the lookup then fails.
RaiseKeyError ==
    /\ hf_pc = "files"
    /\ include_unisim
    /\ TbHardFifo \notin simulation_files[1]
    /\ hf_pc' = "KeyError"
    /\ UNCHANGED <<include_unisim, files_avoid, hf_kwargs, super_files_avoid, simulation_files,
                   hf_tests, hf_test_index, hf_configs, hf_others>>

\* Lines 44-46 with the continue of lines 47-49.
DataWidths == <<4, 9, 16, 21, 36>>

ClockSetups ==
    <<[is_asynchronous |-> FALSE, read_clock_is_faster |-> FALSE],
      [is_asynchronous |-> TRUE, read_clock_is_faster |-> FALSE],
      [is_asynchronous |-> TRUE, read_clock_is_faster |-> TRUE]>>

\* Lines 51-63.
HardFifoGenerics(name, data_width, clocks) ==
    LET base == ("data_width" :> IntValue(data_width))
                @@ ("is_asynchronous" :> BoolValue(clocks.is_asynchronous))
                @@ ("read_clock_is_faster" :> BoolValue(clocks.read_clock_is_faster))
                @@ ("enable_output_register" :> BoolValue(data_width % 2 = 0))
        full == IF name = "test_fifo_full"
                THEN DictSet(base, "read_stall_probability_percent", IntValue(95))
                ELSE base
    IN  IF name = "test_fifo_empty"
        THEN DictSet(full, "write_stall_probability_percent", IntValue(95))
        ELSE full

\* Lines 44-65 for one test.
HardFifoConfigs(name) ==
    [k \in 1..(Len(DataWidths) * Len(ClockSetups)) |->
        [test |-> name,
         generics |-> HardFifoGenerics(name,
                          DataWidths[((k - 1) \div Len(ClockSetups)) + 1],
                          ClockSetups[((k - 1) % Len(ClockSetups)) + 1])]]

\* Lines 42-65: one round of the loop over the tests.
ConfigureTest ==
    /\ hf_pc = "loop"
    /\ hf_test_index <= Len(hf_tests)
    /\ hf_configs' = hf_configs \o HardFifoConfigs(hf_tests[hf_test_index])
    /\ hf_test_index' = hf_test_index + 1
    /\ UNCHANGED <<include_unisim, files_avoid, hf_kwargs, super_files_avoid, simulation_files,
                   hf_tests, hf_pc, hf_others>>

\* The loop of line 42 has ended.
ReturnFromSetupVunit ==
    /\ hf_pc = "loop"
    /\ hf_test_index > Len(hf_tests)
    /\ hf_pc' = "returned"
    /\ UNCHANGED <<include_unisim, files_avoid, hf_kwargs, super_files_avoid, simulation_files,
                   hf_tests, hf_test_index, hf_configs, hf_others>>

InitHardFifo == HFInit /\ PGIdle /\ SRIdle /\ VNIdle /\ CSIdle /\ RSIdle /\ BDIdle /\ SMIdle /\ LFIdle /\ TRIdle /\ HPIdle /\ FGIdle

NextHardFifo ==
    \/ GetSimulationFiles
    \/ SetupVunitWithoutUnisim
    \/ GetTestBench
    \/ RaiseKeyError
    \/ ConfigureTest
    \/ ReturnFromSetupVunit

SpecHardFifo == InitHardFifo /\ [][NextHardFifo]_vars

(* Claim C8. *)

\* The files that the caller asked to avoid.
CallerAvoids == IF files_avoid = None THEN {} ELSE files_avoid[1]

\* The caller's own arguments keep a file out of the simulation files.
CallerKeepsOut(file) ==
    \/ file \in CallerAvoids
    \/ file \in TestFiles /\ ~hf_kwargs.include_tests

\* The tests for which tb_hard_fifo has a configuration.
ConfiguredTests == {hf_configs[i].test : i \in DOMAIN hf_configs}

\* include_unisim false: the four files and the files of the caller are
\* avoided, and no configuration is registered.
WithoutUnisimConsistent ==
    ~include_unisim =>
        /\ hf_configs = <<>>
        /\ simulation_files # NoResult =>
               /\ super_files_avoid = Some(CallerAvoids \cup files_to_avoid)
               /\ simulation_files[1] \cap (CallerAvoids \cup files_to_avoid) = {}

\* include_unisim true: files_avoid is passed on as the caller gave it, and
\* the simulation files are those of the base class.
WithUnisimPassedOn ==
    (include_unisim /\ simulation_files # NoResult) =>
        /\ super_files_avoid = files_avoid
        /\ simulation_files[1] = SuperGetSimulationFiles(files_avoid, hf_kwargs)

\* include_unisim true: setup_vunit returns with a configuration of
\* tb_hard_fifo for every test.
WithUnisimConfigured ==
    (include_unisim /\ hf_pc = "returned") =>
        /\ ConfiguredTests = Range(hf_tests)
        /\ Len(hf_configs) = 15 * Len(hf_tests)

\* C8 as stated: with include_unisim false the four files that depend on
\* unisim and the files of the caller are avoided and nothing is configured;
\* with include_unisim true files_avoid is passed on unchanged and
\* tb_hard_fifo is configured; so tb_hard_fifo is configured only when
\* tb_hard_fifo.vhd is among the simulation files.
C8_Original ==
    /\ WithoutUnisimConsistent
    /\ WithUnisimPassedOn
    /\ WithUnisimConfigured
    /\ include_unisim => hf_pc # "KeyError"
    /\ hf_configs # <<>> => TbHardFifo \in simulation_files[1]

\* C8, amended: with include_unisim false the four files that depend on
\* unisim and the files of the caller are avoided and nothing is configured;
\* with include_unisim true files_avoid is passed on unchanged and a
\* setup_vunit that returns has configured tb_hard_fifo; tb_hard_fifo is
\* configured only when tb_hard_fifo.vhd is among the simulation files,
\* provided that the caller's own arguments (files_avoid, or a keyword
\* argument that reaches the base class) do not keep tb_hard_fifo.vhd out.
C8_ExcludedConsistently ==
    /\ WithoutUnisimConsistent
    /\ WithUnisimPassedOn
    /\ WithUnisimConfigured
    /\ (hf_configs # <<>> /\ ~CallerKeepsOut(TbHardFifo)) =>
           TbHardFifo \in simulation_files[1]
    /\ (hf_pc = "KeyError") => CallerKeepsOut(TbHardFifo)

\* Witness of C8: with unisim, a caller that avoids two other files gets
\* tb_hard_fifo.vhd among the simulation files and fifteen configurations
\* of tb_hard_fifo for each of two tests.
C8_Witness ==
    /\ include_unisim
    /\ hf_pc = "returned"
    /\ files_avoid = Some({"src/hard_fifo.vhd", "src/hard_fifo_pkg.vhd"})
    /\ super_files_avoid = files_avoid
    /\ TbHardFifo \in simulation_files[1]
    /\ Len(hf_configs) = 30

---------------------------------------------------------------------------
(* tools/simulate.py: main.                                                *)

\* A Python string and a Python list of strings: the two never compare
\* equal.
Str(text) == [type |-> "str", val |-> text]

List(items) == [type |-> "list", val |-> items]

\* The default of the positional argument of VUnitCLI: the string, where
\* patterns given on the command line arrive as a list.
DefaultTestPatterns == Str("*")

TestPatternsPool ==
    {DefaultTestPatterns, List(<<"*">>), List(<<"fifo.tb_fifo.*">>)}

\* Lines 129-154: the namespaces that arguments() may return.
SimulateNamespaces ==
    [git_minimal : BOOLEAN, test_patterns : TestPatternsPool,
     vivado_skip : BOOLEAN, ip_compile : BOOLEAN, minimal : BOOLEAN]

\* The test benches that the git diff may touch, as (file name, library).
TestbenchesPool == {<<>>, <<<<"tb_fifo", "fifo">>>>}

SMInit ==
    /\ sm_argv \in SimulateNamespaces
    /\ sm_args = sm_argv
    /\ has_commercial_simulator \in BOOLEAN
    /\ testbenches_to_run \in TestbenchesPool
    /\ sm_pc = "start"
    /\ git_test_filters = NoResult
    /\ sm_project = NoResult
    /\ sm_calls = <<>>
    /\ sm_printed = <<>>
    /\ sm_exit = NoResult

\* Mutant of TestPatternGiven: the pattern is compared with a list.
TestPatternIsNotStarList(namespace) == namespace.test_patterns # List(<<"*">>)

\* Line 35.
TestPatternGiven(namespace) == namespace.test_patterns # DefaultTestPatterns

\* Lines 34-39.
ExitTestPattern ==
    /\ sm_pc = "start"
    /\ sm_args.git_minimal
    /\ TestPatternGiven(sm_args)
    /\ sm_exit' = <<<<"Can not specify a test pattern when using the --git-minimal flag.",
                     " Got ", sm_args.test_patterns>>>>
    /\ sm_pc' = "exited"
    /\ UNCHANGED <<sm_argv, sm_args, has_commercial_simulator, testbenches_to_run,
                   git_test_filters, sm_project, sm_calls, sm_printed, sm_others>>

\* Lines 94-99: the modules that are simulated.
SimModules(namespace) ==
    IF has_commercial_simulator /\ ~namespace.vivado_skip
    THEN "all_modules"
    ELSE "modules_without_ip_cores"

\* Lines 87-124: the calls that setup_vunit_project makes.
SetupVunitProjectCalls(namespace) ==
    <<"VUnit.from_args">>
    \o (IF namespace.vivado_skip
        THEN <<>>
        ELSE <<"add_simlib",
               IF namespace.ip_compile
               THEN "create_vivado_project"
               ELSE "create_vivado_project_if_needed">>
             \o (IF has_commercial_simulator
                 THEN <<"add_from_compile_order_file">>
                 ELSE <<>>))
    \o <<"add_library", "setup_vunit">>

\* Line 126: what setup_vunit_project returns.
SetupVunitProjectResult(namespace) ==
    [test_patterns |-> namespace.test_patterns,
     minimal |-> namespace.minimal,
     sim_modules |-> SimModules(namespace),
     ip_core_vivado_project_directory |->
         IF namespace.vivado_skip THEN <<>> ELSE <<"vivado_ip_project">>]

\* Lines 79-83.
TestFilters(testbenches) ==
    [i \in DOMAIN testbenches |-> testbenches[i][2] \o "." \o testbenches[i][1] \o ".*"]

\* Lines 41 and 65-83: the project for the dependency scan is set up as the
\* real one is, and the git diff gives the filters.
FindGitTestFilters ==
    /\ sm_pc = "start"
    /\ sm_args.git_minimal
    /\ ~TestPatternGiven(sm_args)
    /\ sm_calls' = sm_calls \o SetupVunitProjectCalls(sm_args)
                       \o <<"GitSimulationSubset.find_subset">>
    /\ git_test_filters' = <<TestFilters(testbenches_to_run)>>
    /\ sm_pc' = "filters"
    /\ UNCHANGED <<sm_argv, sm_args, has_commercial_simulator, testbenches_to_run,
                   sm_project, sm_printed, sm_exit, sm_others>>

\* Lines 42-44.
NothingToRun ==
    /\ sm_pc = "filters"
    /\ git_test_filters[1] = <<>>
    /\ sm_printed' = Append(sm_printed,
           <<"Nothing to run. Appears to be no VHDL-related git diff.">>)
    /\ sm_pc' = "returned"
    /\ UNCHANGED <<sm_argv, sm_args, has_commercial_simulator, testbenches_to_run,
                   git_test_filters, sm_project, sm_calls, sm_exit, sm_others>>

\* Lines 46-51.
OverrideTestPatterns ==
    /\ sm_pc = "filters"
    /\ git_test_filters[1] # <<>>
    /\ sm_args' = [sm_args EXCEPT !.test_patterns = List(git_test_filters[1]),
                                  !.minimal = TRUE]
    /\ sm_printed' = Append(sm_printed,
           <<"Running VUnit with test pattern ", List(git_test_filters[1])>>)
    /\ sm_pc' = "setup"
    /\ UNCHANGED <<sm_argv, has_commercial_simulator, testbenches_to_run,
                   git_test_filters, sm_project, sm_calls, sm_exit, sm_others>>

\* Line 53 is reached: without --git-minimal from the start, with it after
\* the override.
ReachesSetup ==
    IF sm_pc = "start" THEN ~sm_args.git_minimal ELSE sm_pc = "setup"

\* Lines 53 and 86-126.
SetupVunitProject ==
    /\ ReachesSetup
    /\ sm_calls' = sm_calls \o SetupVunitProjectCalls(sm_args)
    /\ sm_project' = <<SetupVunitProjectResult(sm_args)>>
    /\ sm_pc' = "project"
    /\ UNCHANGED <<sm_argv, sm_args, has_commercial_simulator, testbenches_to_run,
                   git_test_filters, sm_printed, sm_exit, sm_others>>

\* Lines 55-60 and 184-199.
CreateVhdlLsConfiguration ==
    /\ sm_pc = "project"
    /\ sm_calls' = Append(sm_calls, "create_configuration")
    /\ sm_pc' = "configured"
    /\ UNCHANGED <<sm_argv, sm_args, has_commercial_simulator, testbenches_to_run,
                   git_test_filters, sm_project, sm_printed, sm_exit, sm_others>>

\* Line 62: the simulation is run.
VunitMain ==
    /\ sm_pc = "configured"
    /\ sm_calls' = Append(sm_calls, "vunit_proj.main")
    /\ sm_pc' = "simulated"
    /\ UNCHANGED <<sm_argv, sm_args, has_commercial_simulator, testbenches_to_run,
                   git_test_filters, sm_project, sm_printed, sm_exit, sm_others>>

InitSimulate == SMInit /\ PGIdle /\ SRIdle /\ VNIdle /\ CSIdle /\ RSIdle /\ BDIdle /\ HFIdle /\ LFIdle /\ TRIdle /\ HPIdle /\ FGIdle

NextSimulate ==
    \/ ExitTestPattern
    \/ FindGitTestFilters
    \/ NothingToRun
    \/ OverrideTestPatterns
    \/ SetupVunitProject
    \/ CreateVhdlLsConfiguration
    \/ VunitMain

SpecSimulate == InitSimulate /\ [][NextSimulate]_vars

(* Claim C9. *)

\* The command line has --git-minimal and a test pattern.
PatternWithGitMinimal ==
    sm_argv.git_minimal /\ sm_argv.test_patterns # Str("*")

\* C9: when --git-minimal is set and the test pattern is not the default
\* '*', main exits with an error message before any VUnit project is set up
\* and before any simulation is run; it exits this way in no other case.
C9_NoPatternWithGitMinimal ==
    /\ PatternWithGitMinimal =>
           /\ sm_pc \in {"start", "exited"}
           /\ sm_calls = <<>>
           /\ sm_project = NoResult
           /\ git_test_filters = NoResult
           /\ ~ENABLED (FindGitTestFilters \/ SetupVunitProject)
    /\ sm_pc = "exited" <=> sm_exit # NoResult
    /\ sm_pc = "exited" =>
           /\ PatternWithGitMinimal
           /\ sm_exit[1][1] =
                  "Can not specify a test pattern when using the --git-minimal flag."
           /\ sm_exit[1][3] = sm_argv.test_patterns

\* Witness of C9: --git-minimal with the pattern fifo.tb_fifo.* has made
\* main exit, with no call made.
C9_Witness ==
    /\ sm_pc = "exited"
    /\ sm_argv.git_minimal
    /\ sm_argv.test_patterns = List(<<"fifo.tb_fifo.*">>)
    /\ sm_calls = <<>>
    /\ sm_project = NoResult

---------------------------------------------------------------------------
(* modules/lfsr/module_lfsr.py: post_check_lfsr_pkg.  The file is taken as *)
(* what re.findall of line 76 finds in it: a list of matches, each the six *)
(* strings of the groups of the pattern.  The first two groups are \d+,    *)
(* the other four are [\d-]+.  The lists that are checked hold one match   *)
(* at every position but one.                                              *)

\* Line 79.
ExpectedEntries == 63

\* The matches that a file may hold, as index => (five tap fields).
EntryPool ==
    {<< <<"5">>, <<"3">>, <<"0">>, <<"0">>, <<"0">>, <<"0">> >>,
     << <<"8">>, <<"6">>, <<"5">>, <<"4">>, <<"0">>, <<"0">> >>,
     << <<"6">>, <<"5">>, <<"-", "1">>, <<"1">>, <<"0">>, <<"0">> >>,
     << <<"4">>, <<"2">>, <<"0">>, <<"0">>, <<"0">>, <<"0">> >>,
     << <<"6">>, <<"3">>, <<"-", "3">>, <<"9">>, <<"0">>, <<"0">> >>,
     << <<"7">>, <<"6">>, <<"1">>, <<"0">>, <<"0">>, <<"0">> >>,
     << <<"3">>, <<"0">>, <<"0">>, <<"0">>, <<"0">>, <<"0">> >>,
     << <<"0">>, <<"0">>, <<"0">>, <<"0">>, <<"0">>, <<"0">> >>,
     << <<"6">>, <<"5">>, <<"-">>, <<"0">>, <<"0">>, <<"0">> >>,
     << <<"1", "0">>, <<"7">>, <<"1", "-", "2">>, <<"0">>, <<"0">>, <<"0">> >>}

LengthPool == {ExpectedEntries - 1, ExpectedEntries, ExpectedEntries + 1}

SpecialIndexPool == {1, ExpectedEntries}

LFInit ==
    /\ lf_length \in LengthPool
    /\ lf_common \in EntryPool
    /\ lf_special \in EntryPool
    /\ lf_special_index \in SpecialIndexPool
    /\ lf_pc = "start"
    /\ lf_index = 0
    /\ lf_taps = <<>>
    /\ lf_line = 0
    /\ lf_return = NoResult

\* matches[position - 1] of line 76.
Match(position) == IF position = lf_special_index THEN lf_special ELSE lf_common

\* int(text) does not raise: digits, with at most a sign before them.
IntCastable(text) ==
    IF text # <<>> /\ text[1] = "-" THEN StrIsDigit(Tail(text)) ELSE StrIsDigit(text)

\* int(text)
IntCasted(text) ==
    IF text[1] = "-" THEN 0 - IntOfDigits(Tail(text)) ELSE IntOfDigits(text)

\* Line 82 raises a ValueError.
MatchRaises(match) == \E i \in DOMAIN match : ~IntCastable(match[i])

\* Line 82.
MatchNumbers(match) == [i \in DOMAIN match |-> IntCasted(match[i])]

\* Lines 83-87.
Taps(match_numbers) == SelectSeq(match_numbers, LAMBDA number : number # 0)

Abs(number) == IF number < 0 THEN 0 - number ELSE number

RECURSIVE GcdOfAll(_)
\* gcd(*numbers) of line 91; gcd() is 0.
GcdOfAll(numbers) ==
    IF numbers = <<>> THEN 0
    ELSE Gcd(Abs(Head(numbers)), GcdOfAll(Tail(numbers)))

\* Mutant of FailingAssertion: the assertion of line 90 is missing.
FailingAssertionButEven(taps) ==
    IF ~(Len(taps) > 1) THEN 89
    ELSE IF ~(GcdOfAll(taps) = 1) THEN 91
    ELSE 0

\* Lines 89-91: the line of the assertion that fails, or 0.
FailingAssertion(taps) ==
    IF ~(Len(taps) > 1) THEN 89
    ELSE IF ~(Len(taps) % 2 = 0) THEN 90
    ELSE IF ~(GcdOfAll(taps) = 1) THEN 91
    ELSE 0

LFEnd(pc, line) ==
    /\ lf_pc' = pc
    /\ lf_line' = line
    /\ UNCHANGED <<lf_length, lf_common, lf_special, lf_special_index, lf_index,
                   lf_return, lf_others>>

\* Line 79 fails.
RaiseUnexpectedNumberOfEntries ==
    /\ lf_pc = "start"
    /\ lf_length # ExpectedEntries
    /\ UNCHANGED lf_taps
    /\ LFEnd("AssertionError", 79)

\* Lines 74-81: the loop is entered.
EnterMatchLoop ==
    /\ lf_pc = "start"
    /\ lf_length = ExpectedEntries
    /\ lf_pc' = "loop"
    /\ lf_index' = 1
    /\ UNCHANGED <<lf_length, lf_common, lf_special, lf_special_index, lf_taps,
                   lf_line, lf_return, lf_others>>

InMatchLoop == lf_pc = "loop" /\ lf_index <= lf_length

\* Line 82 raises.
RaiseInvalidLiteral ==
    /\ InMatchLoop
    /\ MatchRaises(Match(lf_index))
    /\ UNCHANGED lf_taps
    /\ LFEnd("ValueError", 82)

\* Lines 82-91, an assertion fails.
RaiseUnreasonableTaps ==
    /\ InMatchLoop
    /\ ~MatchRaises(Match(lf_index))
    /\ LET taps == Taps(MatchNumbers(Match(lf_index)))
       IN  /\ FailingAssertion(taps) # 0
           /\ lf_taps' = taps
           /\ LFEnd("AssertionError", FailingAssertion(taps))

\* Lines 82-91, the match passes.
NextMatch ==
    /\ InMatchLoop
    /\ ~MatchRaises(Match(lf_index))
    /\ LET taps == Taps(MatchNumbers(Match(lf_index)))
       IN  /\ FailingAssertion(taps) = 0
           /\ lf_taps' = taps
    /\ lf_index' = lf_index + 1
    /\ UNCHANGED <<lf_length, lf_common, lf_special, lf_special_index, lf_pc,
                   lf_line, lf_return, lf_others>>

\* Line 93.
ReturnTrue ==
    /\ lf_pc = "loop"
    /\ lf_index > lf_length
    /\ lf_pc' = "returned"
    /\ lf_return' = <<TRUE>>
    /\ UNCHANGED <<lf_length, lf_common, lf_special, lf_special_index, lf_index,
                   lf_taps, lf_line, lf_others>>

InitLfsrPkg == LFInit /\ PGIdle /\ SRIdle /\ VNIdle /\ CSIdle /\ RSIdle /\ BDIdle /\ HFIdle /\ SMIdle /\ TRIdle /\ HPIdle /\ FGIdle

NextLfsrPkg ==
    \/ RaiseUnexpectedNumberOfEntries
    \/ EnterMatchLoop
    \/ RaiseInvalidLiteral
    \/ RaiseUnreasonableTaps
    \/ NextMatch
    \/ ReturnTrue

SpecLfsrPkg == InitLfsrPkg /\ [][NextLfsrPkg]_vars

(* Claim C10. *)

\* The strings that are integers in decimal notation.
IsInteger10(text) ==
    \/ StrIsDigit(text)
    \/ Len(text) > 1 /\ text[1] = "-" /\ StrIsDigit(Tail(text))

\* The non-zero numbers of an entry whose fields are integers.
NonZeroNumbers(entry) ==
    LET value(text) == IF text[1] = "-" THEN 0 - IntOfDigits(Tail(text))
                       ELSE IntOfDigits(text)
    IN  {[position |-> i, number |-> value(entry[i])] :
            i \in {j \in DOMAIN entry : value(entry[j]) # 0}}

\* No number greater than one divides all of the numbers.
SetwiseCoprime(numbers) ==
    LET magnitudes == {IF n < 0 THEN 0 - n ELSE n : n \in numbers}
    IN  \A d \in 2..99 :
            (\E m \in magnitudes : d <= m) => \E m \in magnitudes : m % d # 0

\* The conditions on an entry whose fields are integers.
NumbersReasonable(entry) ==
    LET taps == NonZeroNumbers(entry)
    IN  /\ Cardinality(taps) > 1
        /\ Cardinality(taps) % 2 = 0
        /\ SetwiseCoprime({t.number : t \in taps})

AllIntegers(entry) == \A i \in DOMAIN entry : IsInteger10(entry[i])

\* The entries of the table.
Entries == {Match(position) : position \in 1..lf_length}

\* The table has 63 entries, each of integers that meet the conditions.
TableReasonable ==
    /\ lf_length = 63
    /\ \A entry \in Entries : AllIntegers(entry) /\ NumbersReasonable(entry)

\* The number of entries is not 63, or the numbers of an entry fail one of
\* the conditions.
ConditionFails ==
    \/ lf_length # 63
    \/ \E entry \in Entries : AllIntegers(entry) /\ ~NumbersReasonable(entry)

Ended == lf_pc \in {"returned", "AssertionError", "ValueError"}

\* C10 as stated: True is returned only if the table has 63 entries whose
\* non-zero numbers are more than one, even in count and set-wise co-prime;
\* if any of these fails, the check fails with an AssertionError.
C10_Original ==
    /\ lf_return # NoResult => lf_return = <<TRUE>> /\ TableReasonable
    /\ (Ended /\ ConditionFails) => lf_pc = "AssertionError" /\ lf_return = NoResult

\* C10, amended: True is returned only if the table has 63 entries whose
\* non-zero numbers are more than one, even in count and set-wise co-prime;
\* if any of these fails the check does not return: it fails with an
\* AssertionError, or, when there are 63 entries and the first entry that
\* is not in order has a field that is not an integer, with a ValueError.
C10_SanityCheck ==
    /\ lf_return # NoResult => lf_return = <<TRUE>> /\ TableReasonable
    /\ (Ended /\ ~TableReasonable) =>
           /\ lf_pc \in {"AssertionError", "ValueError"}
           /\ lf_return = NoResult
    /\ lf_pc = "AssertionError" =>
           \/ lf_length # 63
           \/ AllIntegers(Match(lf_index)) /\ ~NumbersReasonable(Match(lf_index))
    /\ lf_pc = "ValueError" =>
           /\ lf_length = 63
           /\ ~AllIntegers(Match(lf_index))
           /\ \A position \in 1..(lf_index - 1) :
                  AllIntegers(Match(position)) /\ NumbersReasonable(Match(position))

\* Witness of C10: the first 62 entries passed, the last one holds a field
\* "-" and the check ended in a ValueError.
C10_Witness ==
    /\ lf_pc = "ValueError"
    /\ lf_index = 63
    /\ lf_special_index = 63
    /\ lf_special[3] = <<"-">>
    /\ lf_return = NoResult

---------------------------------------------------------------------------
(* tools/tag_release.py: main and move_release_notes.  Line 49 is the      *)
(* function verify_new_version_number of above; main goes on when it has   *)
(* returned.  The files that main touches are the version file,            *)
(* unreleased.rst and <version>.rst; a tree holds their contents, and the  *)
(* git index holds what repo.index.add has taken since the last commit.    *)
(* VersionNumberHandler, commit_and_tag_release and make_commit are those  *)
(* of tsfpga.tools.version_number_handler.                                 *)

\* The files in the working tree.
WorkingTree ==
    [version |-> version_file, unreleased |-> unreleased_notes, notes |-> version_notes]

TRInit ==
    /\ tr_pc = "verify"
    /\ tr_steps = <<>>
    /\ version_file = current_version
    /\ version_notes \in {<<>>, <<"Added\n-----\n* An old entity.\n">>}
    /\ tr_index = Empty
    /\ tr_head = WorkingTree
    /\ tr_commits = <<>>
    /\ tr_tag_commit = 0

\* repo.index.add(path) with the contents that the path has.
IndexAdd(index, path, contents) == (path :> contents) @@ index

\* repo.index.commit(message): the tree of HEAD with what the index holds.
CommitOf(message) ==
    [message |-> message,
     tree |-> [path \in DOMAIN tr_head |->
                  IF path \in DOMAIN tr_index THEN tr_index[path] ELSE tr_head[path]]]

DigitChar(d) == CHOOSE c \in Digits : DigitValue(c) = d

RECURSIVE StrOfInt(_)
\* str(n) for n >= 0.
StrOfInt(n) ==
    IF n < 10 THEN <<DigitChar(n)>> ELSE StrOfInt(n \div 10) \o <<DigitChar(n % 10)>>

\* bump_to_prelease: the development version of the next patch.
PreReleaseVersion(version) ==
    LET release == ParseVersion(version).release
    IN  StrOfInt(Segment(release, 1)) \o <<".">> \o StrOfInt(Segment(release, 2))
            \o <<".">> \o StrOfInt(Segment(release, 3) + 1) \o DevSuffix

\* Lines 49-54: verify_new_version_number has returned the tag; the version
\* file gets the release version and is added to the index.
UpdateVersion ==
    /\ tr_pc = "verify"
    /\ vn_pc = "returned"
    /\ version_file' = new_version
    /\ tr_index' = IndexAdd(tr_index, "version", new_version)
    /\ tr_steps' = tr_steps \o <<"verify_new_version_number", "update">>
    /\ tr_pc' = "move"
    /\ UNCHANGED <<version_notes, tr_head, tr_commits, tr_tag_commit, vn_vars, tr_rest>>

\* Lines 94-95.
RaiseNotesExist ==
    /\ tr_pc = "move"
    /\ version_notes # <<>>
    /\ tr_pc' = "RuntimeError"
    /\ UNCHANGED <<tr_steps, version_file, version_notes, tr_index, tr_head,
                   tr_commits, tr_tag_commit, vn_vars, tr_rest>>

\* Mutant of AddReleaseNotes: line 104 is missing.
AddUnreleasedOnly(index, unreleased, notes) == IndexAdd(index, "unreleased", unreleased)

\* Lines 103-104.
AddReleaseNotes(index, unreleased, notes) ==
    IndexAdd(IndexAdd(index, "unreleased", unreleased), "notes", notes)

\* Lines 56 and 90-104.
MoveReleaseNotes ==
    /\ tr_pc = "move"
    /\ version_notes = <<>>
    /\ version_notes' = <<unreleased_notes>>
    /\ unreleased_notes' = UNRELEASED_EMPTY
    /\ tr_index' = AddReleaseNotes(tr_index, UNRELEASED_EMPTY, <<unreleased_notes>>)
    /\ tr_steps' = Append(tr_steps, "move_release_notes")
    /\ tr_pc' = "commit_and_tag"
    /\ UNCHANGED <<version_file, tr_head, tr_commits, tr_tag_commit>>
    /\ UNCHANGED <<repo_is_dirty, new_version, current_version, repo_tags, vn_pc,
                   tag_index, vn_return, vn_message, tr_rest>>

\* Line 58: the release commit is made and gets the tag.
CommitAndTagRelease ==
    /\ tr_pc = "commit_and_tag"
    /\ tr_commits' = Append(tr_commits, CommitOf(<<"Release version ", new_version>>))
    /\ tr_head' = CommitOf(<<>>).tree
    /\ tr_index' = Empty
    /\ tr_tag_commit' = Len(tr_commits) + 1
    /\ repo_tags' = Append(repo_tags, vn_return[1])
    /\ tr_steps' = Append(tr_steps, "commit_and_tag_release")
    /\ tr_pc' = "bump"
    /\ UNCHANGED <<version_file, version_notes>>
    /\ UNCHANGED <<repo_is_dirty, unreleased_notes, new_version, current_version, vn_pc,
                   tag_index, vn_return, vn_message, tr_rest>>

\* Line 60.
BumpToPrelease ==
    /\ tr_pc = "bump"
    /\ version_file' = PreReleaseVersion(version_file)
    /\ tr_index' = IndexAdd(tr_index, "version", PreReleaseVersion(version_file))
    /\ tr_steps' = Append(tr_steps, "bump_to_prelease")
    /\ tr_pc' = "commit"
    /\ UNCHANGED <<version_notes, tr_head, tr_commits, tr_tag_commit, vn_vars, tr_rest>>

\* Line 61.
MakeCommit ==
    /\ tr_pc = "commit"
    /\ tr_commits' = Append(tr_commits, CommitOf(<<"Set pre-release version number">>))
    /\ tr_head' = CommitOf(<<>>).tree
    /\ tr_index' = Empty
    /\ tr_steps' = Append(tr_steps, "make_commit")
    /\ tr_pc' = "done"
    /\ UNCHANGED <<version_file, version_notes, tr_tag_commit, vn_vars, tr_rest>>

InitTagRelease == VNInit /\ TRInit /\ PGIdle /\ SRIdle /\ CSIdle /\ RSIdle /\ BDIdle /\ HFIdle /\ SMIdle /\ LFIdle /\ HPIdle /\ FGIdle

NextTagRelease ==
    \/ NextVerify
    \/ UpdateVersion
    \/ RaiseNotesExist
    \/ MoveReleaseNotes
    \/ CommitAndTagRelease
    \/ BumpToPrelease
    \/ MakeCommit

SpecTagRelease == InitTagRelease /\ [][NextTagRelease]_vars

(* Claim C13. *)

\* The steps of a run that completes, in their order.
StepsOfRelease ==
    <<"verify_new_version_number", "update", "move_release_notes",
      "commit_and_tag_release", "bump_to_prelease", "make_commit">>

\* The commit that holds the release tag.
TaggedCommit == tr_commits[tr_tag_commit]

IsDevelopmentVersion(text) ==
    Len(text) > 4 /\ SubSeq(text, Len(text) - 3, Len(text)) = <<"-", "d", "e", "v">>

\* C13: in a run of main that completes the steps occur in the order
\* verification, update of the version file, move of the release notes,
\* release commit and tag, bump to the pre-release version, commit of the
\* pre-release version; the release tag is on a commit that holds the
\* release version and the moved release notes, never on the pre-release
\* commit.
C13_ReleaseOrder ==
    /\ tr_steps = SubSeq(StepsOfRelease, 1, Len(tr_steps))
    /\ tr_steps # <<>> => vn_pc = "returned"
    /\ tr_pc = "done" =>
           /\ tr_steps = StepsOfRelease
           /\ Len(tr_commits) = 2
           /\ tr_tag_commit = 1
           /\ IsDevelopmentVersion(tr_commits[2].tree.version)
    /\ tr_tag_commit # 0 =>
           /\ repo_tags[Len(repo_tags)] = <<"v">> \o new_version
           /\ TaggedCommit.message = <<"Release version ", new_version>>
           /\ TaggedCommit.tree.version = new_version
           /\ ~IsDevelopmentVersion(TaggedCommit.tree.version)
           /\ TaggedCommit.tree.notes # <<>>
           /\ TaggedCommit.tree.notes[1] \notin {"", UNRELEASED_EMPTY}
           /\ TaggedCommit.tree.unreleased = UNRELEASED_EMPTY
    /\ tr_tag_commit = 0 => tr_commits = <<>> /\ tr_pc # "done"

\* Witness of C13: a release 1.1.0 is made in a repository with the tag
\* v1.0.0; the run has completed with the version file at 1.1.1-dev.
C13_Witness ==
    /\ tr_pc = "done"
    /\ new_version = <<"1", ".", "1", ".", "0">>
    /\ repo_tags = << <<"v", "1", ".", "0", ".", "0">>, <<"v", "1", ".", "1", ".", "0">> >>
    /\ version_file = <<"1", ".", "1", ".", "1", "-", "d", "e", "v">>
    /\ tr_commits[1].tree.version = <<"1", ".", "1", ".", "0">>
    /\ tr_tag_commit = 1

---------------------------------------------------------------------------
(* modules/common/module_common.py: _setup_handshake_pipeline_tests and    *)
(* _get_handshake_pipeline_build_projects.  The simulation flow calls the  *)
(* first and the build flow the second; their steps are taken in any       *)
(* order.                                                                  *)

\* sub in text
Contains(text, sub) ==
    \E i \in 0..(Len(text) - Len(sub)) : SubSeq(text, i + 1, i + Len(sub)) = sub

FullThroughputWord == <<"f", "u", "l", "l", "_", "t", "h", "r", "o", "u", "g", "h", "p", "u", "t">>

\* The names that a test of tb_handshake_pipeline may have.
PipelineTestPool ==
    {<<"t", "e", "s", "t", "_", "r", "a", "n", "d", "o", "m", "_", "d", "a", "t", "a">>,
     <<"t", "e", "s", "t", "_", "f", "u", "l", "l", "_", "t", "h", "r", "o", "u", "g", "h", "p", "u", "t">>,
     <<"t", "e", "s", "t", "_", "f", "u", "l", "l", "_", "t", "h", "r", "o", "u", "g", "h", "p", "u", "t", "_", "j", "i", "t", "t", "e", "r">>}

MaxPipelineTests == 2

\* Line 129: itertools.product([False, True], [False, True], [False, True])
PipelineProduct ==
    Product(<< <<FALSE, TRUE>>, <<FALSE, TRUE>>, <<FALSE, TRUE>> >>)

HPInit ==
    /\ hp_tests \in {tests \in SeqsUpTo(PipelineTestPool, MaxPipelineTests) :
                         Distinct(tests)}
    /\ hp_pc = "loop"
    /\ hp_test_index = 1
    /\ hp_product_index = 1
    /\ hp_configs = <<>>
    /\ hp_build_pc = "loop"
    /\ hp_idx = 0
    /\ hp_projects = <<>>

InPipelineLoop ==
    /\ hp_pc = "loop"
    /\ hp_test_index <= Len(hp_tests)
    /\ hp_product_index <= Len(PipelineProduct)

\* Lines 125-129: the three loop variables.
PipelineControlSignals == PipelineProduct[hp_product_index][1]

PipelineDataSignals == PipelineProduct[hp_product_index][2]

FullThroughput == PipelineProduct[hp_product_index][3]

\* Mutant of NotSupported: the test of the data signals is missing.
NotSupportedWhateverData(full_throughput, pipeline_control_signals, pipeline_data_signals) ==
    full_throughput /\ pipeline_control_signals

\* Line 132.
NotSupported(full_throughput, pipeline_control_signals, pipeline_data_signals) ==
    full_throughput /\ pipeline_control_signals /\ ~pipeline_data_signals

\* Line 137.
NotForFullThroughputTest(name, full_throughput) ==
    Contains(name, FullThroughputWord) /\ ~full_throughput

\* The loop of line 125 goes on.
ContinuePipelineLoop ==
    /\ hp_product_index' = hp_product_index + 1
    /\ UNCHANGED <<hp_tests, hp_pc, hp_test_index, hp_build_pc, hp_idx, hp_projects,
                   hp_others>>

\* Lines 132-133.
SkipNotSupported ==
    /\ InPipelineLoop
    /\ NotSupported(FullThroughput, PipelineControlSignals, PipelineDataSignals)
    /\ UNCHANGED hp_configs
    /\ ContinuePipelineLoop

\* Lines 137-138.
SkipNotFullThroughput ==
    /\ InPipelineLoop
    /\ ~NotSupported(FullThroughput, PipelineControlSignals, PipelineDataSignals)
    /\ NotForFullThroughputTest(hp_tests[hp_test_index], FullThroughput)
    /\ UNCHANGED hp_configs
    /\ ContinuePipelineLoop

\* Lines 140-148.
AddPipelineConfig ==
    /\ InPipelineLoop
    /\ ~NotSupported(FullThroughput, PipelineControlSignals, PipelineDataSignals)
    /\ ~NotForFullThroughputTest(hp_tests[hp_test_index], FullThroughput)
    /\ hp_configs' = Append(hp_configs,
           [test |-> hp_tests[hp_test_index],
            generics |->
                [data_jitter |-> ~Contains(hp_tests[hp_test_index], FullThroughputWord),
                 full_throughput |-> FullThroughput,
                 pipeline_control_signals |-> PipelineControlSignals,
                 pipeline_data_signals |-> PipelineDataSignals]])
    /\ ContinuePipelineLoop

\* Line 124: the next test.
NextPipelineTest ==
    /\ hp_pc = "loop"
    /\ hp_test_index <= Len(hp_tests)
    /\ hp_product_index > Len(PipelineProduct)
    /\ hp_test_index' = hp_test_index + 1
    /\ hp_product_index' = 1
    /\ UNCHANGED <<hp_tests, hp_pc, hp_configs, hp_build_pc, hp_idx, hp_projects,
                   hp_others>>

\* The loop of line 124 has ended.
ReturnFromPipelineSetup ==
    /\ hp_pc = "loop"
    /\ hp_test_index > Len(hp_tests)
    /\ hp_pc' = "returned"
    /\ UNCHANGED <<hp_tests, hp_test_index, hp_product_index, hp_configs, hp_build_pc,
                   hp_idx, hp_projects, hp_others>>

\* Lines 326-328.
full_throughput == <<TRUE, TRUE, TRUE, FALSE, FALSE, FALSE, FALSE>>

pipeline_control_signals == <<TRUE, FALSE, FALSE, TRUE, TRUE, FALSE, FALSE>>

pipeline_data_signals == <<TRUE, TRUE, FALSE, TRUE, FALSE, TRUE, FALSE>>

\* Lines 330-332.
total_luts == <<41, 1, 0, 1, 2, 2, 0>>

ffs == <<78, 38, 0, 39, 3, 38, 0>>

maximum_logic_level == <<2, 2, 0, 2, 2, 2, 0>>

\* Lines 335-355, for idx counted from 0.
PipelineProject(idx) ==
    LET project_generics ==
            [data_width |-> 32,
             full_throughput |-> full_throughput[idx + 1],
             pipeline_control_signals |-> pipeline_control_signals[idx + 1],
             pipeline_data_signals |-> pipeline_data_signals[idx + 1]]
    IN  [name |-> <<"handshake_pipeline", project_generics>>,
         top |-> "handshake_pipeline",
         generics |-> project_generics,
         build_result_checkers |->
             [TotalLuts |-> total_luts[idx + 1],
              Ffs |-> ffs[idx + 1],
              MaximumLogicLevel |-> maximum_logic_level[idx + 1]]]

\* Lines 334-355: one round of the loop.
AppendPipelineProject ==
    /\ hp_build_pc = "loop"
    /\ hp_idx < Len(total_luts)
    /\ hp_projects' = Append(hp_projects, PipelineProject(hp_idx))
    /\ hp_idx' = hp_idx + 1
    /\ UNCHANGED <<hp_tests, hp_pc, hp_test_index, hp_product_index, hp_configs,
                   hp_build_pc, hp_others>>

\* The loop of line 334 has ended.
ReturnFromPipelineProjects ==
    /\ hp_build_pc = "loop"
    /\ hp_idx >= Len(total_luts)
    /\ hp_build_pc' = "returned"
    /\ UNCHANGED <<hp_tests, hp_pc, hp_test_index, hp_product_index, hp_configs,
                   hp_idx, hp_projects, hp_others>>

InitPipeline == HPInit /\ PGIdle /\ SRIdle /\ VNIdle /\ CSIdle /\ RSIdle /\ BDIdle /\ HFIdle /\ SMIdle /\ LFIdle /\ TRIdle /\ FGIdle

NextPipeline ==
    \/ SkipNotSupported
    \/ SkipNotFullThroughput
    \/ AddPipelineConfig
    \/ NextPipelineTest
    \/ ReturnFromPipelineSetup
    \/ AppendPipelineProject
    \/ ReturnFromPipelineProjects

SpecPipeline == InitPipeline /\ [][NextPipeline]_vars

(* Claim C14. *)

\* A set of the three generics, as (full_throughput,
\* pipeline_control_signals, pipeline_data_signals).
Combination(dict) ==
    <<dict.full_throughput, dict.pipeline_control_signals, dict.pipeline_data_signals>>

\* All sets but full throughput with pipelining of control signals and not
\* of data signals.
SupportedCombinations == (BOOLEAN \X BOOLEAN \X BOOLEAN) \ {<<TRUE, TRUE, FALSE>>}

\* The build projects with a combination.
ProjectsWith(combination) ==
    {i \in DOMAIN hp_projects : Combination(hp_projects[i].generics) = combination}

\* The configurations of a test with a combination.
ConfigsWith(name, combination) ==
    {i \in DOMAIN hp_configs :
        /\ hp_configs[i].test = name
        /\ Combination(hp_configs[i].generics) = combination}

\* The tests that are not a full throughput test: no part of the name is
\* the word.
OtherTests ==
    {name \in Range(hp_tests) :
        \A i \in 1..Len(name) : \A j \in i..Len(name) :
            SubSeq(name, i, j) # FullThroughputWord}

\* C14: the build projects of handshake_pipeline hold each of the seven
\* combinations of (full_throughput, pipeline_control_signals,
\* pipeline_data_signals) other than (true, true, false) in exactly one
\* project and hold no other; the simulation setup registers the same seven
\* combinations, each once, for a test that is not a full throughput test.
C14_SevenCombinations ==
    /\ \A i \in DOMAIN hp_projects :
           /\ Combination(hp_projects[i].generics) \in SupportedCombinations
           /\ ProjectsWith(Combination(hp_projects[i].generics)) = {i}
    /\ \A i \in DOMAIN hp_configs :
           Combination(hp_configs[i].generics) \in SupportedCombinations
    /\ hp_build_pc = "returned" =>
           /\ Len(hp_projects) = 7
           /\ \A combination \in SupportedCombinations :
                  Cardinality(ProjectsWith(combination)) = 1
    /\ (hp_build_pc = "returned" /\ hp_pc = "returned") =>
           \A name \in OtherTests :
               /\ {Combination(hp_configs[i].generics) :
                      i \in {j \in DOMAIN hp_configs : hp_configs[j].test = name}}
                  = {Combination(hp_projects[i].generics) : i \in DOMAIN hp_projects}
               /\ \A combination \in SupportedCombinations :
                      Cardinality(ConfigsWith(name, combination)) = 1

\* Witness of C14: seven projects were made; a test that is not a full
\* throughput test has seven configurations and the full throughput test
\* has three.
C14_Witness ==
    /\ hp_build_pc = "returned"
    /\ hp_pc = "returned"
    /\ Len(hp_projects) = 7
    /\ Len(hp_tests) = 2
    /\ Cardinality(OtherTests) = 1
    /\ Len(hp_configs) = 10

---------------------------------------------------------------------------
(* modules/fifo/module_fifo.py: generate_common_fifo_test_generics.  The   *)
(* function is a generator: the call runs nothing, every next() runs it to *)
(* its next yield.  Dictionaries are objects: a variable names an object,  *)
(* and fg_heap holds what each object contains.  The caller keeps every   *)
(* object that it is given, with a note of what the object held then.     *)

WriteFasterThanReadWord ==
    <<"w", "r", "i", "t", "e", "_", "f", "a", "s", "t", "e", "r", "_", "t",
    "h", "a", "n", "_", "r", "e", "a", "d">>

ReadFasterThanWriteWord ==
    <<"r", "e", "a", "d", "_", "f", "a", "s", "t", "e", "r", "_", "t", "h",
    "a", "n", "_", "w", "r", "i", "t", "e">>

PacketModeWord ==
    <<"p", "a", "c", "k", "e", "t", "_", "m", "o", "d", "e">>

DropPacketWord ==
    <<"d", "r", "o", "p", "_", "p", "a", "c", "k", "e", "t">>

PeekModeWord ==
    <<"p", "e", "e", "k", "_", "m", "o", "d", "e">>

InitStateWord ==
    <<"i", "n", "i", "t", "_", "s", "t", "a", "t", "e">>

AlmostWord ==
    <<"a", "l", "m", "o", "s", "t">>

ReadLevelShouldBeZeroWord ==
    <<"d", "r", "o", "p", "_", "p", "a", "c", "k", "e", "t", "_", "m", "o",
    "d", "e", "_", "r", "e", "a", "d", "_", "l", "e", "v", "e", "l", "_",
    "s", "h", "o", "u", "l", "d", "_", "b", "e", "_", "z", "e", "r", "o">>

\* The names that a test of the FIFO test benches may have.
FifoTestPool ==
    {<<"t", "e", "s", "t", "_", "i", "n", "i", "t", "_", "s", "t", "a", "t",
     "e">>,
     <<"t", "e", "s", "t", "_", "w", "r", "i", "t", "e", "_", "f", "a", "s",
     "t", "e", "r", "_", "t", "h", "a", "n", "_", "r", "e", "a", "d">>,
     <<"t", "e", "s", "t", "_", "r", "e", "a", "d", "_", "f", "a", "s", "t",
     "e", "r", "_", "t", "h", "a", "n", "_", "w", "r", "i", "t", "e">>,
     <<"t", "e", "s", "t", "_", "p", "a", "c", "k", "e", "t", "_", "m", "o",
     "d", "e">>,
     <<"t", "e", "s", "t", "_", "d", "r", "o", "p", "_", "p", "a", "c", "k",
     "e", "t", "_", "m", "o", "d", "e", "_", "r", "e", "a", "d", "_", "l",
     "e", "v", "e", "l", "_", "s", "h", "o", "u", "l", "d", "_", "b", "e",
     "_", "z", "e", "r", "o">>,
     <<"t", "e", "s", "t", "_", "p", "e", "e", "k", "_", "m", "o", "d",
     "e">>,
     <<"t", "e", "s", "t", "_", "a", "l", "m", "o", "s", "t", "_", "f", "u",
     "l", "l">>,
     <<"t", "e", "s", "t", "_", "d", "r", "o", "p", "_", "p", "a", "c", "k",
     "e", "t", "_", "r", "a", "n", "d", "o", "m">>}

\* What a caller may give as original_generics, lines 30-33 and 42 among
\* them; None is the default.
OriginalGenericsPool ==
    {Empty,
     "enable_output_register" :> BoolValue(FALSE),
     "enable_output_register" :> BoolValue(TRUE),
     ("read_clock_is_faster" :> BoolValue(TRUE))
         @@ ("enable_output_register" :> BoolValue(FALSE)),
     ("read_clock_is_faster" :> BoolValue(FALSE))
         @@ ("enable_output_register" :> BoolValue(TRUE))}

FGInit ==
    /\ test_name \in FifoTestPool
    /\ \/ /\ original_generics = 0
          /\ fg_original = Empty
          /\ fg_heap = <<>>
       \/ /\ original_generics = 1
          /\ fg_original \in OriginalGenericsPool
          /\ fg_heap = <<fg_original>>
    /\ fg_generics = 0
    /\ fg_pc = "created"
    /\ fg_position = 0
    /\ fg_yielded = <<>>

\* Line 54: the object that generics names.
GenericsObject ==
    IF original_generics # 0 THEN original_generics ELSE Len(fg_heap) + 1

\* The heap when line 54 has run.
HeapWithGenerics ==
    IF GenericsObject <= Len(fg_heap) THEN fg_heap
    ELSE Append(fg_heap, IF original_generics # 0 THEN fg_heap[original_generics] ELSE Empty)

\* Lines 56-70, on the contents of generics.
CommonUpdates(name, dict) ==
    LET d1 == IF Contains(name, WriteFasterThanReadWord)
              THEN DictSet(DictSet(dict, "read_stall_probability_percent", IntValue(90)),
                           "enable_last", BoolValue(TRUE))
              ELSE dict
        d2 == IF Contains(name, ReadFasterThanWriteWord)
              THEN DictSet(d1, "write_stall_probability_percent", IntValue(90))
              ELSE d1
        d3 == IF Contains(name, PacketModeWord)
              THEN DictSet(DictSet(d2, "enable_last", BoolValue(TRUE)),
                           "enable_packet_mode", BoolValue(TRUE))
              ELSE d2
        d4 == IF Contains(name, DropPacketWord)
              THEN DictSet(DictSet(d3, "enable_last", BoolValue(TRUE)),
                           "enable_drop_packet", BoolValue(TRUE))
              ELSE d3
    IN  IF Contains(name, PeekModeWord)
        THEN DictSet(DictSet(d4, "enable_last", BoolValue(TRUE)),
                     "enable_peek_mode", BoolValue(TRUE))
        ELSE d4

\* Lines 72, 88 and 94: the branch that a test name takes.
FifoBranch(name) ==
    IF Contains(name, InitStateWord) \/ Contains(name, AlmostWord) THEN "almost"
    ELSE IF Contains(name, ReadLevelShouldBeZeroWord) THEN "read_level"
    ELSE "depths"

\* The number of configurations of a branch.
YieldCount(name) == IF FifoBranch(name) = "read_level" THEN 1 ELSE 2

\* Lines 77-84, 90-91 and 96-98: the contents of generics at a yield.
UpdatesBeforeYield(name, dict, position) ==
    LET enable_output_register == dict["enable_output_register"].val
    IN  CASE FifoBranch(name) = "almost" ->
                 LET depth == 32 + enable_output_register
                     levels == << <<depth, depth \div 2>>, <<depth \div 2, 0>> >>
                 IN  DictSet(DictSet(DictSet(dict, "depth", IntValue(depth)),
                                     "almost_full_level", IntValue(levels[position][1])),
                             "almost_empty_level", IntValue(levels[position][2]))
          [] FifoBranch(name) = "read_level" ->
                 DictSet(dict, "depth", IntValue(16 + enable_output_register))
          [] OTHER ->
                 DictSet(dict, "depth", IntValue(<<16, 64>>[position] + enable_output_register))

\* The caller's note of a configuration.
Yielded(object, dict) == [object |-> object, held |-> dict]

\* The first next(), lines 54-77, 90 or 97: generics has no key
\* enable_output_register.
FirstNextRaisesKeyError ==
    /\ fg_pc = "created"
    /\ "enable_output_register" \notin
           DOMAIN CommonUpdates(test_name, HeapWithGenerics[GenericsObject])
    /\ fg_generics' = GenericsObject
    /\ fg_heap' = [HeapWithGenerics EXCEPT
                      ![GenericsObject] = CommonUpdates(test_name, @)]
    /\ fg_pc' = "KeyError"
    /\ UNCHANGED <<test_name, original_generics, fg_original, fg_position, fg_yielded,
                   fg_others>>

\* The first next(): lines 54-86, 54-92 or 54-100.
FirstNext ==
    /\ fg_pc = "created"
    /\ "enable_output_register" \in
           DOMAIN CommonUpdates(test_name, HeapWithGenerics[GenericsObject])
    /\ LET dict == UpdatesBeforeYield(test_name,
                       CommonUpdates(test_name, HeapWithGenerics[GenericsObject]), 1)
       IN  /\ fg_heap' = [HeapWithGenerics EXCEPT ![GenericsObject] = dict]
           /\ fg_yielded' = Append(fg_yielded, Yielded(GenericsObject, dict))
    /\ fg_generics' = GenericsObject
    /\ fg_position' = 1
    /\ fg_pc' = "suspended"
    /\ UNCHANGED <<test_name, original_generics, fg_original, fg_others>>

\* A later next(): the loop of line 79 or 96 goes round once more.
LaterNext ==
    /\ fg_pc = "suspended"
    /\ fg_position < YieldCount(test_name)
    /\ LET dict == UpdatesBeforeYield(test_name, fg_heap[fg_generics], fg_position + 1)
       IN  /\ fg_heap' = [fg_heap EXCEPT ![fg_generics] = dict]
           /\ fg_yielded' = Append(fg_yielded, Yielded(fg_generics, dict))
    /\ fg_position' = fg_position + 1
    /\ UNCHANGED <<test_name, original_generics, fg_original, fg_generics, fg_pc,
                   fg_others>>

\* A later next(): the function ends, StopIteration.
StopIteration ==
    /\ fg_pc = "suspended"
    /\ fg_position >= YieldCount(test_name)
    /\ fg_pc' = "exhausted"
    /\ UNCHANGED <<test_name, original_generics, fg_original, fg_heap, fg_generics,
                   fg_position, fg_yielded, fg_others>>

InitFifoGenerics == FGInit /\ PGIdle /\ SRIdle /\ VNIdle /\ CSIdle /\ RSIdle /\ BDIdle /\ HFIdle /\ SMIdle /\ LFIdle /\ TRIdle /\ HPIdle

NextFifoGenerics ==
    \/ FirstNextRaisesKeyError
    \/ FirstNext
    \/ LaterNext
    \/ StopIteration

SpecFifoGenerics == InitFifoGenerics /\ [][NextFifoGenerics]_vars

(* Claim C15. *)

=============================================================================
